---- MODULE Spec2Model ----
(***************************************************************************)
(* ResearchVault: knowledge store, branch resolver, ingestion pipeline and *)
(* verification-mission engine (scripts/core.py), modelled over the SQLite *)
(* tables they read and write.                                             *)
(*                                                                         *)
(* Strings are sequences of one-character strings, so that strip() and the *)
(* branch-id sanitisation act on characters as the code does.              *)
(***************************************************************************)
EXTENDS Integers, Sequences, FiniteSets, TLC

VARIABLES
    projects,      \* projects table: set of project ids that have a row
    branches,      \* branches table: set of rows
    findings,      \* findings table: set of rows
    events,        \* events table: sequence of rows, position = autoincrement id
    missions,      \* verification_missions table: set of rows
    search_cache,  \* search_cache table: set of rows
    provider_state, \* environment: the state each search provider is in
    clock,         \* environment: datetime.now(), in seconds
    connectors,    \* IngestService._connectors, in registration order
    nextFid,       \* number of finding ids drawn so far (uuid4 stand-in)
    nextMid,       \* number of mission ids drawn so far (uuid4 stand-in)
    run,           \* per-runner frame of run_verification_missions
    hypotheses,    \* rows of the hypotheses table
    artifacts,     \* rows of the artifacts table
    store,         \* the database file as init_db sees it: committed content
    initf,         \* per-process frame of init_db
    tail,          \* frame of the portal's event_generator
    sessions,      \* portal auth: _SESSIONS and the number of ids issued
    portal,        \* portal process: os.environ, _RUNTIME_SECRETS, secrets.json
    ret            \* outcome of the last completed call

vars == <<projects, branches, findings, events, missions, search_cache,
          provider_state, clock, connectors, nextFid, nextMid, run, hypotheses, artifacts,
          store, initf, tail, sessions, portal, ret>>

----------------------------------------------------------------------------
(* Bounds *)

MaxFindings == 2
MaxEvents == 2
MaxHypotheses == 2
MaxArtifacts == 1

----------------------------------------------------------------------------
(* Python values *)

None == <<"<None>">>

Truthy(x) == x # None /\ x # <<>>

OrElse(x, d) == IF Truthy(x) THEN x ELSE d

Whitespace == {" "}

RECURSIVE LStrip(_)
LStrip(s) == IF s # <<>> /\ Head(s) \in Whitespace THEN LStrip(Tail(s)) ELSE s

RECURSIVE RStrip(_)
RStrip(s) ==
    IF s # <<>> /\ s[Len(s)] \in Whitespace
    THEN RStrip(SubSeq(s, 1, Len(s) - 1))
    ELSE s

Strip(s) == RStrip(LStrip(s))

Raised(kind) == <<"raise", kind>>

IsRaised(v) == Len(v) = 2 /\ v[1] = "raise"

MAIN == <<"m", "a", "i", "n">>

----------------------------------------------------------------------------
(* Branch resolver *)

SafeChars ==
    {"a","b","c","d","e","f","g","h","i","j","k","l","m","n","o","p","q","r",
     "s","t","u","v","w","x","y","z",
     "A","B","C","D","E","F","G","H","I","J","K","L","M","N","O","P","Q","R",
     "S","T","U","V","W","X","Y","Z",
     "0","1","2","3","4","5","6","7","8","9","_","-"}

_safe_id_part(raw) ==
    LET s == Strip(OrElse(raw, <<>>))
    IN  [i \in 1..Len(s) |-> IF s[i] \in SafeChars THEN s[i] ELSE "_"]

_make_branch_id(project_id, branch_name) ==
    <<"b", "r", "_">> \o _safe_id_part(project_id) \o <<"_">>
        \o _safe_id_part(branch_name)

\* Rows of tbl selected by name alone.
BranchRowsAnyProject(tbl, project_id, name) == {b \in tbl : b.name = name}

\* Rows of tbl selected by project_id and name.
BranchRows(tbl, project_id, name) ==
    {b \in tbl : b.project_id = project_id /\ b.name = name}

\* The branches table keys: id is the primary key, name is unique per project.
BranchConflict(tbl, row) ==
    \E b \in tbl :
        \/ b.id = row.id
        \/ b.project_id = row.project_id /\ b.name = row.name

InsertOrReplaceBranch(tbl, row) ==
    {b \in tbl : ~(\/ b.id = row.id
                   \/ b.project_id = row.project_id /\ b.name = row.name)}
        \cup {row}

InsertOrIgnoreBranch(tbl, row) ==
    IF BranchConflict(tbl, row) THEN tbl ELSE tbl \cup {row}

\* ensure_branch: the pair of the table after the call and the value returned
\* (a branch id) or the exception raised.
ensure_branch(tbl, project_id, branch_name_arg, parent_branch, hypothesis) ==
    LET branch_name == OrElse(Strip(OrElse(branch_name_arg, MAIN)), MAIN)
        prows == BranchRows(tbl, project_id, parent_branch)
        parent_id == IF Truthy(parent_branch)
                     THEN (CHOOSE b \in prows : TRUE).id
                     ELSE None
        branch_id == _make_branch_id(project_id, branch_name)
        row == [id |-> branch_id, project_id |-> project_id,
                name |-> branch_name, parent_id |-> parent_id,
                hypothesis |-> OrElse(hypothesis, <<>>),
                created_at |-> Cardinality(tbl) + 1]
    IN  IF Truthy(parent_branch) /\ prows = {}
        THEN [tbl |-> tbl, val |-> Raised("ValueError: Parent branch not found")]
        ELSE [tbl |-> InsertOrIgnoreBranch(tbl, row), val |-> branch_id]

\* Any missing name is created on first use.
resolve_branch_id_autocreate(tbl, project_id, branch) ==
    LET branch_name == OrElse(Strip(OrElse(branch, MAIN)), MAIN)
        rows == BranchRows(tbl, project_id, branch_name)
    IN  IF rows # {}
        THEN [tbl |-> tbl, val |-> (CHOOSE b \in rows : TRUE).id]
        ELSE ensure_branch(tbl, project_id, branch_name, None, <<>>)

resolve_branch_id(tbl, project_id, branch) ==
    LET branch_name == OrElse(Strip(OrElse(branch, MAIN)), MAIN)
        rows == BranchRows(tbl, project_id, branch_name)
    IN  IF rows # {}
        THEN [tbl |-> tbl, val |-> (CHOOSE b \in rows : TRUE).id]
        ELSE IF branch_name = MAIN
        THEN ensure_branch(tbl, project_id, MAIN, None, <<>>)
        ELSE [tbl |-> tbl, val |-> Raised("ValueError: Branch not found")]

create_branch(tbl, project_id, name, parent, hypothesis) ==
    ensure_branch(tbl, project_id, name, parent, hypothesis)

----------------------------------------------------------------------------
(* Sensitive-data scrubbing of a string (URL credentials) *)

Schemes == {"http://", "https://"}

\* Least index j >= i with s[j] = c, or 0 when a character of stop (or the
\* end of s) comes first.
RECURSIVE FindEnd(_, _, _, _)
FindEnd(s, i, c, stop) ==
    IF i > Len(s) THEN 0
    ELSE IF s[i] = c THEN i
    ELSE IF s[i] \in stop THEN 0
    ELSE FindEnd(s, i + 1, c, stop)

\* re.sub(r'(https?://)([^/:]+):([^/@]+)@', r'\1REDACTED:REDACTED@', data)
RECURSIVE ScrubCredentials(_)
ScrubCredentials(s) ==
    IF s = <<>> THEN <<>>
    ELSE IF Head(s) \in Schemes
    THEN LET j == FindEnd(s, 2, ":", {"/"})
             k == IF j > 2 THEN FindEnd(s, j + 1, "@", {"/"}) ELSE 0
         IN  IF j > 2 /\ k > j + 1
             THEN <<Head(s), "REDACTED", ":", "REDACTED", "@">>
                      \o ScrubCredentials(SubSeq(s, k + 1, Len(s)))
             ELSE <<Head(s)>> \o ScrubCredentials(Tail(s))
    ELSE <<Head(s)>> \o ScrubCredentials(Tail(s))

scrub_data(data) == IF data = None THEN None ELSE ScrubCredentials(data)

\* json.dumps({"source_url": x})
Evidence(x) == <<"source_url", x>>

\* json.dumps / json.loads of a JSON value.
json_dumps(value) == <<"json", value>>

json_loads(text) == text[2]

\* Python values handed to scrub_data as payloads: a string, an int, a dict
\* (its items in insertion order, keys as character sequences), a list and a
\* tuple.
PyStr(s) == [t |-> "str", v |-> s]

PyInt(n) == [t |-> "int", v |-> n]

PyDict(items) == [t |-> "dict", v |-> items]

PyList(items) == [t |-> "list", v |-> items]

PyTuple(items) == [t |-> "tuple", v |-> items]

Lower(c) ==
    CASE c = "T" -> "t" [] c = "K" -> "k" [] c = "S" -> "s" [] OTHER -> c

\* sensitive_keys
sensitive_keys ==
    {<<"t","o","k","e","n">>, <<"k","e","y">>, <<"s","e","c","r","e","t">>,
     <<"p","a","s","s","w","o","r","d">>, <<"a","u","t","h">>,
     <<"a","p","i","_","k","e","y">>, <<"a","p","i","k","e","y">>}

\* w in k
IsSubstring(w, k) ==
    \E i \in 0..(Len(k) - Len(w)) : SubSeq(k, i + 1, i + Len(w)) = w

\* any(s in k.lower() for s in sensitive_keys)
IsSensitiveKey(k) ==
    \E w \in sensitive_keys : IsSubstring(w, [i \in 1..Len(k) |-> Lower(k[i])])

REDACTED == <<"[REDACTED]">>

\* scrub_data on a payload: the dict and list branches, strings through the
\* string branch, every other value returned as it is.
RECURSIVE scrub_value(_)
scrub_value(data) ==
    CASE data.t = "str" -> PyStr(scrub_data(data.v))
      [] data.t = "dict" ->
            PyDict([i \in 1..Len(data.v) |->
                    IF IsSensitiveKey(data.v[i][1]) /\ data.v[i][2].t = "str"
                    THEN <<data.v[i][1], PyStr(REDACTED)>>
                    ELSE <<data.v[i][1], scrub_value(data.v[i][2])>>])
      [] data.t = "list" ->
            PyList([i \in 1..Len(data.v) |-> scrub_value(data.v[i])])
      [] OTHER -> data

\* The JSON value json.dumps writes for a Python value: a tuple becomes an
\* array.
RECURSIVE ToJson(_)
ToJson(data) ==
    CASE data.t = "dict" ->
            PyDict([i \in 1..Len(data.v) |->
                    <<data.v[i][1], ToJson(data.v[i][2])>>])
      [] data.t \in {"list", "tuple"} ->
            PyList([i \in 1..Len(data.v) |-> ToJson(data.v[i])])
      [] OTHER -> data

----------------------------------------------------------------------------
(* Entity store: projects, findings, events *)

FindingId(n) == <<"fnd", n>>

MissionId(n) == <<"mis", n>>

\* The finding written with INSERT OR REPLACE on (project_id, title).
add_insight_upsert(btbl, ftbl, n, project_id, title, content, source_url, tags, confidence, branch, ok) ==
    LET r == resolve_branch_id(btbl, project_id, branch)
        row == [id |-> FindingId(n + 1), project_id |-> project_id,
                branch_id |-> r.val,
                title |-> scrub_data(title), content |-> scrub_data(content),
                evidence |-> Evidence(scrub_data(source_url)),
                confidence |-> confidence, tags |-> tags,
                created_at |-> n + 1]
    IN  IF IsRaised(r.val) \/ ~ok
        THEN [branches |-> btbl, findings |-> ftbl, n |-> n,
              val |-> IF ok THEN r.val
                      ELSE Raised("OperationalError: database is locked")]
        ELSE [branches |-> r.tbl,
              findings |-> {f \in ftbl : ~(/\ f.project_id = project_id
                                           /\ f.title = row.title)}
                              \cup {row},
              n |-> n + 1, val |-> row.id]

\* add_insight. ok = FALSE is the INSERT failing (lock contention surfaced
\* after the retries); the branch argument is resolved before the INSERT runs.
add_insight(btbl, ftbl, n, project_id, title, content, source_url, tags, confidence, branch, ok) ==
    LET r == resolve_branch_id(btbl, project_id, branch)
        fid == FindingId(n + 1)
        row == [id |-> fid, project_id |-> project_id, branch_id |-> r.val,
                title |-> scrub_data(title), content |-> scrub_data(content),
                evidence |-> Evidence(scrub_data(source_url)),
                confidence |-> confidence, tags |-> tags,
                created_at |-> n + 1]
    IN  IF IsRaised(r.val)
        THEN [branches |-> btbl, findings |-> ftbl, n |-> n, val |-> r.val]
        ELSE IF ~ok
        THEN [branches |-> r.tbl, findings |-> ftbl, n |-> n,
              val |-> Raised("OperationalError: database is locked")]
        ELSE [branches |-> r.tbl, findings |-> ftbl \cup {row}, n |-> n + 1,
              val |-> fid]

\* log_event. ok = FALSE is the INSERT failing, as in add_insight.
log_event(btbl, evs, project_id, event_type, step, payload, source, branch, ok) ==
    LET r == resolve_branch_id(btbl, project_id, branch)
        row == [project_id |-> project_id, event_type |-> event_type,
                step |-> step,
                payload |-> json_dumps(ToJson(scrub_value(payload))),
                source |-> scrub_data(source), branch_id |-> r.val]
    IN  IF IsRaised(r.val)
        THEN [branches |-> btbl, events |-> evs, val |-> r.val]
        ELSE IF ~ok
        THEN [branches |-> r.tbl, events |-> evs,
              val |-> Raised("OperationalError: database is locked")]
        ELSE [branches |-> r.tbl, events |-> Append(evs, row), val |-> None]

HypothesisId(n) == <<"hyp", n>>

ArtifactId(n) == <<"art", n>>

\* add_hypothesis: the branch is resolved first, then the row is inserted.
add_hypothesis(btbl, htbl, project_id, branch, statement) ==
    LET r == resolve_branch_id(btbl, project_id, branch)
        row == [id |-> HypothesisId(Cardinality(htbl) + 1),
                branch_id |-> r.val, statement |-> statement,
                created_at |-> Cardinality(htbl) + 1]
    IN  IF IsRaised(r.val)
        THEN [branches |-> btbl, hypotheses |-> htbl, val |-> r.val]
        ELSE [branches |-> r.tbl, hypotheses |-> htbl \cup {row},
              val |-> row.id]

\* The path boundary of add_artifact: under the workspace or vault root, or
\* holding one of the markers of a temporary directory.
PathAllowed(path) ==
    \/ path # <<>> /\ Head(path) \in {"~/.openclaw/workspace/",
                                       "~/.researchvault/"}
    \/ \E i \in 1..Len(path) : path[i] \in {"PYTEST", "tmp", "TEMP"}

\* add_artifact: boundary check, INSERT with the branch resolved, commit,
\* then the ARTIFACT event.
add_artifact(btbl, atbl, evs, project_id, path, branch) ==
    LET r == resolve_branch_id(btbl, project_id, branch)
        aid == ArtifactId(Cardinality(atbl) + 1)
        row == [id |-> aid, project_id |-> project_id,
                path |-> scrub_data(path), branch_id |-> r.val]
        ev == log_event(r.tbl, evs, project_id, "ARTIFACT", "add",
                        PyDict(<<<<<<"a","r","t","i","f","a","c","t","_","i","d">>,
                                PyStr(<<"art_", ToString(aid[2])>>)>>,
                               <<<<"p","a","t","h">>, PyStr(path)>>>>),
                        <<"vault">>, branch, TRUE)
    IN  IF ~PathAllowed(path)
        THEN [branches |-> btbl, artifacts |-> atbl, events |-> evs,
              val |-> Raised("ValueError: Security violation")]
        ELSE IF IsRaised(r.val)
        THEN [branches |-> btbl, artifacts |-> atbl, events |-> evs,
              val |-> r.val]
        ELSE [branches |-> ev.branches, artifacts |-> atbl \cup {row},
              events |-> ev.events, val |-> aid]

----------------------------------------------------------------------------
(* Inputs *)

ProjectIds == {<<"a", ".", "b">>, <<"a", "_", "b">>}

BranchX == <<"x">>

BranchArgs == {None, MAIN, <<" ", "m", "a", "i", "n">>, BranchX}

ParentArgs == {None, MAIN}

Hypotheses == {<<>>, <<"h">>}

SrcCred1 == <<"http://", "u", ":", "p", "@", "h">>

SrcCred2 == <<"http://", "u", ":", "q", "@", "h">>

SrcMolt == <<"moltbook", "://", "1">>

Sources == {<<>>, SrcCred1, SrcCred2, SrcMolt}

ExtraTags == {<<"x">>}

ConnectorKinds == {"moltbook", "web"}

----------------------------------------------------------------------------
(* Connectors *)

Contains(s, c) == \E i \in 1..Len(s) : s[i] = c

can_handle(kind, url) ==
    CASE kind = "moltbook" -> Contains(url, "moltbook")
      [] kind = "web" -> TRUE

\* Whether the connector's fetch may return (TRUE) or raise (FALSE): the
\* moltbook connector returns a canned post; the web connector issues an HTTP
\* GET, which fails on any network error and on a url without a scheme.
FetchOutcomes(kind, url) ==
    IF kind = "moltbook" THEN {TRUE}
    ELSE IF url # <<>> /\ Head(url) \in Schemes THEN BOOLEAN
    ELSE {FALSE}

Draft(kind, url) ==
    CASE kind = "moltbook" ->
            [title |-> <<"M">>, content |-> <<"state">>, confidence |-> 99,
             tags |-> <<"moltbook", "agents", "state">>, source |-> <<"moltbook">>]
      [] kind = "web" ->
            [title |-> <<"W">>, content |-> <<"text">>, confidence |-> 70,
             tags |-> <<"web", "scraping">>, source |-> <<"web">>]

\* IngestService.get_connector_for: index of the first connector that accepts
\* the source, 0 when there is none.
get_connector_for(cs, source) ==
    IF \E i \in 1..Len(cs) : can_handle(cs[i], source)
    THEN CHOOSE i \in 1..Len(cs) :
            /\ can_handle(cs[i], source)
            /\ \A j \in 1..(i - 1) : ~can_handle(cs[j], source)
    ELSE 0

\* The evidence string the dedup lookup of ingest compares with.
DedupEvidenceRaw(source) == Evidence(source)

DedupEvidence(source) == Evidence(scrub_data(source))

\* all_tags.extend([t for t in extra_tags if t not in all_tags])
MergeTags(tags, extra_tags) ==
    IF Truthy(extra_tags)
    THEN tags \o SelectSeq(extra_tags, LAMBDA t : ~Contains(tags, t))
    ELSE tags

----------------------------------------------------------------------------
(* Ingestion / dedup pipeline *)

IngestOk(artifact_id, dedup) ==
    [raised |-> FALSE, success |-> TRUE, artifact_id |-> artifact_id,
     dedup |-> dedup, error |-> None]

IngestFailed(error) ==
    [raised |-> FALSE, success |-> FALSE, artifact_id |-> None,
     dedup |-> FALSE, error |-> error]

\* An exception leaving ingest instead of a result.
Propagated(error) ==
    [raised |-> TRUE, success |-> FALSE, artifact_id |-> None,
     dedup |-> FALSE, error |-> error]

\* The try block without its except clause.
Uncaught(error) == Propagated(error)

\* except Exception as e: return IngestResult(success=False, error=str(e))
CaughtFailure(error) == IngestFailed(error)

ErrorText(v) == v[2]

\* IngestService.ingest. fetchOK, insOK and evOK say whether the connector's
\* fetch, the finding INSERT and the event INSERT succeed; hit is the row the
\* dedup SELECT ... LIMIT 1 returns when it returns one. called is the index
\* of the connector whose fetch ran (0: none), cause names the step that
\* failed ("" when none did).
ingest(btbl, ftbl, evs, n, cs, project_id, source, extra_tags, branch, fetchOK, insOK, evOK, hit) ==
    LET r0 == resolve_branch_id(btbl, project_id, branch)
        src_scrubbed == scrub_data(source)
        hits == IF Truthy(src_scrubbed)
                THEN {f \in ftbl : /\ f.project_id = project_id
                                   /\ f.branch_id = r0.val
                                   /\ f.evidence = DedupEvidence(source)}
                ELSE {}
        ci == get_connector_for(cs, source)
        draft == Draft(cs[ci], source)
        all_tags == MergeTags(draft.tags, extra_tags)
        ins == add_insight(r0.tbl, ftbl, n, project_id, draft.title,
                           draft.content, source, all_tags, draft.confidence,
                           branch, insOK)
        ev == log_event(ins.branches, evs, project_id, "INGEST",
                        "connector_fetch",
                        PyDict(<<<<<<"t","i","t","l","e">>, PyStr(draft.title)>>>>),
                        draft.source, branch, evOK)
        base == [branches |-> r0.tbl, findings |-> ftbl, events |-> evs,
                 n |-> n, called |-> 0, cause |-> ""]
    IN  IF IsRaised(r0.val)
        THEN [base EXCEPT !.branches = btbl]
                 @@ [val |-> Propagated(<<ErrorText(r0.val)>>)]
        ELSE IF hits # {}
        THEN base @@ [val |-> IngestOk(hit.id, TRUE)]
        ELSE IF ci = 0
        THEN [base EXCEPT !.cause = "no_connector"]
                 @@ [val |-> IngestFailed(<<"No connector found for source">>)]
        ELSE IF ~fetchOK
        THEN [base EXCEPT !.called = ci, !.cause = "fetch"]
                 @@ [val |-> CaughtFailure(<<"fetch failed">>)]
        ELSE IF IsRaised(ins.val)
        THEN [base EXCEPT !.called = ci, !.cause = "write_finding",
                          !.branches = ins.branches]
                 @@ [val |-> CaughtFailure(<<ErrorText(ins.val)>>)]
        ELSE IF IsRaised(ev.val)
        THEN [base EXCEPT !.called = ci, !.cause = "append_event",
                          !.branches = ev.branches, !.findings = ins.findings,
                          !.n = ins.n]
                 @@ [val |-> CaughtFailure(<<ErrorText(ev.val)>>)]
        ELSE [base EXCEPT !.called = ci, !.branches = ev.branches,
                          !.findings = ins.findings, !.n = ins.n,
                          !.events = ev.events]
                 @@ [val |-> IngestOk(ins.val, FALSE)]

----------------------------------------------------------------------------
(* State *)

Runners == {1, 2}

\* The providers search() has a function for. Provider names are taken as
\* already stripped and lowercased.
SearchFns == {"brave", "serper", "searxng", "duckduckgo", "wikipedia"}

IdleFrame == [pc |-> "idle"]

\* No stream is open.
TailIdle == [pc |-> "idle", project_id |-> None, last_id |-> 0, current_id |-> 0,
             rows |-> <<>>, yielded |-> <<>>]

\* Operating-system processes that call init_db.
Processes == {1, 2}

\* The database file before anything was created in it. insights and
\* findings are the rows of these tables in insertion order, each row standing
\* for its title; schema_version is the set of rows of that table.
FreshStore ==
    [tables |-> {}, schema_version |-> {}, insights |-> <<>>, findings |-> <<>>]

\* A connection's pending transaction: closed, or a working copy of the
\* database that becomes the file's content at commit.
NoTx == [open |-> FALSE, db |-> FreshStore]

OpenTx(db) == [open |-> TRUE, db |-> db]

InitIdle == [pc |-> "idle", current_version |-> 0, i |-> 0, stmt |-> 0,
             insights |-> <<>>, tx |-> NoTx, error |-> None, out |-> <<>>]

\* The secrets the portal keeps, by their key in _RUNTIME_SECRETS and in
\* secrets.json.
SecretNames == {"brave_api_key", "serper_api_key", "searxng_base_url"}

PERSIST_SECRETS == "RESEARCHVAULT_PORTAL_PERSIST_SECRETS"

INJECT_SECRETS == "RESEARCHVAULT_PORTAL_INJECT_SECRETS"

EnvVar(name) ==
    CASE name = "brave_api_key" -> "BRAVE_API_KEY"
      [] name = "serper_api_key" -> "SERPER_API_KEY"
      [] name = "searxng_base_url" -> "SEARXNG_BASE_URL"

EnvVars == {PERSIST_SECRETS, INJECT_SECRETS} \cup {EnvVar(n) : n \in SecretNames}

\* A dict with none of the secrets in it.
NoSecrets == [n \in SecretNames |-> None]

\* The portal process before it is started: no environment, an empty
\* _RUNTIME_SECRETS, no secrets.json in the state directory.
PortalDown == [up |-> FALSE, env |-> [v \in EnvVars |-> None],
               runtime |-> NoSecrets,
               file |-> [exists |-> FALSE, data |-> NoSecrets]]

InitBase ==
    /\ projects = {}
    /\ branches = {}
    /\ findings = {}
    /\ events = <<>>
    /\ missions = {}
    /\ search_cache = {}
    /\ provider_state = [prov \in SearchFns |-> "ok"]
    /\ clock = 0
    /\ connectors = <<>>
    /\ nextFid = 0
    /\ nextMid = 0
    /\ run = [r \in Runners |-> IdleFrame]
    /\ hypotheses = {}
    /\ artifacts = {}
    /\ initf = [p \in Processes |-> InitIdle]
    /\ tail = TailIdle
    /\ sessions = [dict |-> {}, issued |-> 0]
    /\ portal = PortalDown
    /\ ret = [op |-> "init"]

\* A store no process has opened yet: the database file does not exist.
Init == InitBase /\ store = FreshStore

AllIdle == \A r \in Runners : run[r].pc = "idle"

----------------------------------------------------------------------------
(* Operations on projects, branches and findings *)

NormName(branch) == OrElse(Strip(OrElse(branch, MAIN)), MAIN)

start_project(project_id) ==
    LET e == ensure_branch(branches, project_id, MAIN, None, <<>>)
    IN  /\ AllIdle
        /\ projects' = projects \cup {project_id}
        /\ branches' = e.tbl
        /\ ret' = [op |-> "start_project", project_id |-> project_id,
                   name |-> MAIN, val |-> e.val,
                   existed |-> BranchRows(branches, project_id, MAIN) # {}]
        /\ UNCHANGED <<portal, store, initf, tail, sessions, hypotheses, artifacts, clock, findings, events, missions, search_cache, provider_state,
                       connectors, nextFid, nextMid, run>>

CreateBranch(project_id, name, parent, hypothesis) ==
    LET e == create_branch(branches, project_id, name, parent, hypothesis)
    IN  /\ AllIdle
        /\ branches' = e.tbl
        /\ ret' = [op |-> "create_branch", project_id |-> project_id,
                   name |-> NormName(name), val |-> e.val,
                   parent |-> parent, hypothesis |-> hypothesis,
                   existed |->
                       BranchRows(branches, project_id, NormName(name)) # {}]
        /\ UNCHANGED <<portal, store, initf, tail, sessions, hypotheses, artifacts, clock, projects, findings, events, missions, search_cache,
                       provider_state, connectors, nextFid, nextMid, run>>

ResolveBranchId(project_id, branch) ==
    LET e == resolve_branch_id(branches, project_id, branch)
    IN  /\ AllIdle
        /\ branches' = e.tbl
        /\ ret' = [op |-> "resolve_branch_id", project_id |-> project_id,
                   name |-> NormName(branch), val |-> e.val,
                   existed |->
                       BranchRows(branches, project_id, NormName(branch)) # {}]
        /\ UNCHANGED <<portal, store, initf, tail, sessions, hypotheses, artifacts, clock, projects, findings, events, missions, search_cache,
                       provider_state, connectors, nextFid, nextMid, run>>

AddInsight(project_id, in, branch, ok) ==
    LET a == add_insight(branches, findings, nextFid, project_id, in.title,
                         in.content, <<>>, in.tags, in.confidence, branch, ok)
    IN  /\ AllIdle
        /\ nextFid < MaxFindings
        /\ branches' = a.branches
        /\ findings' = a.findings
        /\ nextFid' = a.n
        /\ ret' = [op |-> "add_insight", project_id |-> project_id,
                   name |-> NormName(branch), val |-> a.val]
        /\ UNCHANGED <<portal, store, initf, tail, sessions, hypotheses, artifacts, clock, projects, events, missions, search_cache, provider_state,
                       connectors, run, nextMid>>

AddHypothesis(project_id, branch, statement) ==
    LET a == add_hypothesis(branches, hypotheses, project_id, branch,
                            statement)
    IN  /\ AllIdle
        /\ Cardinality(hypotheses) < MaxHypotheses
        /\ branches' = a.branches
        /\ hypotheses' = a.hypotheses
        /\ ret' = [op |-> "add_hypothesis", project_id |-> project_id,
                   name |-> NormName(branch), val |-> a.val]
        /\ UNCHANGED <<portal, store, initf, tail, sessions, artifacts, clock, projects, findings, events,
                       missions, search_cache, provider_state, connectors,
                       nextFid, nextMid, run>>

AddArtifact(project_id, path, branch) ==
    LET a == add_artifact(branches, artifacts, events, project_id, path,
                          branch)
    IN  /\ AllIdle
        /\ Cardinality(artifacts) < MaxArtifacts
        /\ Len(a.events) <= MaxEvents
        /\ branches' = a.branches
        /\ artifacts' = a.artifacts
        /\ events' = a.events
        /\ ret' = [op |-> "add_artifact", project_id |-> project_id,
                   name |-> NormName(branch), val |-> a.val]
        /\ UNCHANGED <<portal, store, initf, tail, sessions, hypotheses, clock, projects, findings, missions,
                       search_cache, provider_state, connectors, nextFid,
                       nextMid, run>>

\* update_status: UPDATE projects SET status / priority WHERE id=?. The
\* projects table is kept as the set of ids, which the statement leaves as it
\* is; a project id with no row matches nothing and raises nothing.
update_status(project_id) ==
    /\ AllIdle
    /\ ret' = [op |-> "update_status", project_id |-> project_id]
    /\ UNCHANGED <<portal, store, initf, tail, sessions, hypotheses,
                   artifacts, clock, projects, branches, findings, events,
                   missions, search_cache, provider_state, connectors,
                   nextFid, nextMid, run>>

\* vault log: one event appended by the caller.
LogEvent(project_id, event_type, step, payload, source, branch) ==
    LET e == log_event(branches, events, project_id, event_type, step,
                       payload, source, branch, TRUE)
    IN  /\ AllIdle
        /\ Len(e.events) <= MaxEvents
        /\ branches' = e.branches
        /\ events' = e.events
        /\ ret' = [op |-> "log_event", project_id |-> project_id,
                   name |-> NormName(branch), val |-> e.val]
        /\ UNCHANGED <<portal, store, initf, tail, sessions, hypotheses, artifacts, clock, projects, findings,
                       missions, search_cache, provider_state, connectors,
                       nextFid, nextMid, run>>

\* get_ingest_service: a fresh service with the connectors registered in
\* their fixed order, the catch-all web connector last.
get_ingest_service ==
    /\ connectors = <<>>
    /\ connectors' = <<"moltbook", "web">>
    /\ ret' = [op |-> "get_ingest_service"]
    /\ UNCHANGED <<portal, store, initf, tail, sessions, hypotheses, artifacts, clock, projects, branches, findings, events, missions,
                   search_cache, provider_state, nextFid, nextMid, run>>

FailureModes == {"", "fetch", "write_finding", "append_event"}

\* One ingest call; fail names the step the environment makes fail, if any.
Ingest(project_id, source, extra_tags, branch, fail) ==
    LET r0 == resolve_branch_id(branches, project_id, branch)
        hits == {f \in findings : /\ f.project_id = project_id
                                  /\ f.branch_id = r0.val
                                  /\ f.evidence = DedupEvidence(source)}
        prior == {f \in findings : /\ f.project_id = project_id
                                   /\ f.branch_id = r0.val
                                   /\ f.evidence = Evidence(scrub_data(source))}
    IN  \E hit \in (IF hits = {} THEN {None} ELSE hits) :
        \E g \in {ingest(branches, findings, events, nextFid, connectors,
                         project_id, source, extra_tags, branch,
                         fail # "fetch", fail # "write_finding",
                         fail # "append_event", hit)} :
            /\ AllIdle
            /\ g.n <= MaxFindings
            /\ Len(g.events) <= MaxEvents
            /\ g.called # 0 =>
                  (fail # "fetch") \in FetchOutcomes(connectors[g.called], source)
            /\ branches' = g.branches
            /\ findings' = g.findings
            /\ events' = g.events
            /\ nextFid' = g.n
            /\ ret' = [op |-> "ingest", source |-> source, val |-> g.val,
                       extra_tags |-> extra_tags,
                       called |-> g.called, cause |-> g.cause,
                       prior |-> {f.id : f \in prior},
                       added_finding |-> g.findings # findings,
                       added_event |-> g.events # events]
            /\ UNCHANGED <<portal, store, initf, tail, sessions, hypotheses, artifacts, clock, projects, missions, search_cache, provider_state,
                           connectors, nextMid, run>>

----------------------------------------------------------------------------
(* Search cache and provider gateway *)

\* Trim and lowercase.
_normalize_query(query) ==
    LET q == Strip(query) IN [i \in 1..Len(q) |-> Lower(q[i])]

_query_hash(q) == <<"sha256", _normalize_query(q)>>

\* Seconds in timedelta(hours=1).
HourSeconds == 3600

\* default_search_providers: env is the list RESEARCHVAULT_SEARCH_PROVIDERS
\* holds, <<>> when the variable is unset.
default_search_providers(env) ==
    IF env # <<>>
    THEN env
    ELSE <<"brave", "serper", "searxng", "duckduckgo", "wikipedia">>

_search_cache_key(query, provider) ==
    <<"sha256", provider, _normalize_query(query)>>

\* A write that never reaches the table.
log_search_dropped(cache, query, result, provider, now) == cache

\* log_search: INSERT OR REPLACE INTO search_cache, query_hash the primary key.
log_search(cache, query, result, provider, now) ==
    LET k == _search_cache_key(query, provider)
    IN  {r \in cache : r.query_hash # k}
            \cup {[query_hash |-> k, query |-> query,
                   result |-> json_dumps(result), timestamp |-> now]}

IsFreshInclusive(now, timestamp, ttl_hours) ==
    now - timestamp <= ttl_hours * HourSeconds + 1

\* datetime.now() - fromisoformat(timestamp) < timedelta(hours=ttl_hours)
IsFresh(now, timestamp, ttl_hours) ==
    now - timestamp < ttl_hours * HourSeconds

\* check_search: hit = FALSE stands for the None the code returns.
check_search(cache, query, ttl_hours, provider, now) ==
    LET rows == {r \in cache :
                    r.query_hash = _search_cache_key(query, provider)}
        row == CHOOSE r \in rows : TRUE
    IN  IF rows # {} /\ IsFresh(now, row.timestamp, ttl_hours)
        THEN [hit |-> TRUE, result |-> json_loads(row.result)]
        ELSE [hit |-> FALSE]

\* The states the environment can put a provider in: answering with results
\* or with none, lacking its API key, lacking its base URL, or failing the
\* HTTP request.
ProviderStates(prov) ==
    CASE prov \in {"brave", "serper"} -> {"ok", "empty", "missing_key", "error"}
      [] prov = "searxng" -> {"ok", "empty", "not_configured", "error"}
      [] OTHER -> {"ok", "empty", "error"}

\* perform_<prov>_search(q) with the provider in state st[prov].
perform_search(prov, q, st) ==
    CASE st[prov] = "ok" ->
            [ok |-> TRUE, res |-> [provider |-> prov, results |-> <<q>>]]
      [] st[prov] = "empty" ->
            [ok |-> TRUE, res |-> [provider |-> prov, results |-> <<>>]]
      [] st[prov] = "missing_key" ->
            [ok |-> FALSE, type |-> "MissingAPIKeyError",
             msg |-> <<prov, "API key not found">>]
      [] st[prov] = "not_configured" ->
            [ok |-> FALSE, type |-> "ProviderNotConfiguredError",
             msg |-> <<prov, "base URL not configured">>]
      [] OTHER ->
            [ok |-> FALSE, type |-> "HTTPError",
             msg |-> <<prov, "request failed">>]

NoResult == [provider |-> "", results |-> <<>>]

SearchReturn(res, source, prov, cache, called) ==
    [ok |-> TRUE, type |-> "", error |-> None, res |-> res,
     source |-> source, provider |-> prov, cache |-> cache,
     called |-> called]

SearchRaise(type, error, cache, called) ==
    [ok |-> FALSE, type |-> type, error |-> error, res |-> NoResult,
     source |-> "", provider |-> "", cache |-> cache, called |-> called]

\* The first provider of the order from position i on whose cache entry is
\* served, 0 when there is none.
RECURSIVE FirstCached(_, _, _, _, _, _)
FirstCached(order, i, q, ttl_hours, cache, now) ==
    IF i > Len(order) THEN 0
    ELSE IF check_search(cache, q, ttl_hours, order[i], now).hit THEN i
    ELSE FirstCached(order, i + 1, q, ttl_hours, cache, now)

\* Only the first provider of the order is looked up in the cache.
CachePassHeadOnly(order, q, ttl_hours, cache, now) ==
    IF order # <<>> /\ check_search(cache, q, ttl_hours, order[1], now).hit
    THEN 1
    ELSE 0

\* for prov in order: cached = check_search(...); if cached is not None: ...
CachePass(order, q, ttl_hours, cache, now) ==
    FirstCached(order, 1, q, ttl_hours, cache, now)

\* The provider loop of search from position i on. last_missing and
\* last_other are the messages of the exceptions kept so far, called lists
\* the providers whose function was called.
RECURSIVE ProviderLoop(_, _, _, _, _, _, _, _, _)
ProviderLoop(order, i, q, p, cache, st, now, last, called) ==
    IF i > Len(order)
    THEN IF last.missing # None /\ p # "auto"
         THEN SearchRaise("MissingAPIKeyError", last.missing, cache, called)
         ELSE SearchRaise("RuntimeError",
                          IF last.other # None THEN last.other
                          ELSE IF last.missing # None THEN last.missing
                          ELSE <<"search failed">>,
                          cache, called)
    ELSE IF order[i] \notin SearchFns
    THEN ProviderLoop(order, i + 1, q, p, cache, st, now, last, called)
    ELSE LET r == perform_search(order[i], q, st)
             c == Append(called, order[i])
         IN  IF r.ok
             THEN SearchReturn(r.res, "network", order[i],
                               log_search(cache, q, r.res, order[i], now), c)
             ELSE IF r.type = "MissingAPIKeyError"
             THEN ProviderLoop(order, i + 1, q, p, cache, st, now,
                               [last EXCEPT !.missing = r.msg], c)
             ELSE ProviderLoop(order, i + 1, q, p, cache, st, now,
                               [last EXCEPT !.other = r.msg], c)

\* q = (query or "").strip() without the strip.
QueryText(query) == OrElse(query, <<>>)

StrippedQuery(query) == Strip(OrElse(query, <<>>))

\* order = providers or (default_search_providers() if p == "auto" else [p])
SearchOrder(provider, providers, env) ==
    IF providers # <<>> THEN providers
    ELSE IF provider = "auto" THEN default_search_providers(env)
    ELSE <<provider>>

\* Only the first provider of the order is ever called.
search_head_only(query, provider, providers, ttl_hours, env, cache, st, now) ==
    LET q == StrippedQuery(query)
        order == SearchOrder(provider, providers, env)
        i == CachePass(order, q, ttl_hours, cache, now)
    IN  IF q = <<>>
        THEN SearchRaise("ValueError", <<"empty query">>, cache, <<>>)
        ELSE IF i # 0
        THEN SearchReturn(
                 check_search(cache, q, ttl_hours, order[i], now).result,
                 "cache", order[i], cache, <<>>)
        ELSE ProviderLoop(SubSeq(order, 1, 1), 1, q, provider, cache, st, now,
                          [missing |-> None, other |-> None], <<>>)

\* search(query, provider=provider, providers=providers, ttl_hours=ttl_hours)
\* over the cache table, with the providers in states st at time now.
search(query, provider, providers, ttl_hours, env, cache, st, now) ==
    LET q == StrippedQuery(query)
        order == SearchOrder(provider, providers, env)
        i == CachePass(order, q, ttl_hours, cache, now)
    IN  IF q = <<>>
        THEN SearchRaise("ValueError", <<"empty query">>, cache, <<>>)
        ELSE IF i # 0
        THEN SearchReturn(
                 check_search(cache, q, ttl_hours, order[i], now).result,
                 "cache", order[i], cache, <<>>)
        ELSE ProviderLoop(order, 1, q, provider, cache, st, now,
                          [missing |-> None, other |-> None], <<>>)

\* Age in seconds of the cache entry of (query, provider), -1 when the table
\* has no such entry.
EntryAge(cache, query, provider, now) ==
    LET rows == {r \in cache :
                    r.query_hash = _search_cache_key(query, provider)}
    IN  IF rows = {} THEN -1 ELSE now - (CHOOSE r \in rows : TRUE).timestamp

\* One call of search, as `vault search` and the mission engine make it.
\* ages holds the age of each provider's cache entry when the call starts,
\* prev the provider and result of the call just before when that call was
\* the same query answered from the network.
Search(query, provider, providers, ttl_hours, env) ==
    LET order == SearchOrder(provider, providers, env)
    IN  \E s \in {search(query, provider, providers, ttl_hours, env,
                         search_cache, provider_state, clock)} :
            /\ AllIdle
            /\ search_cache' = s.cache
            /\ ret' = [op |-> "search", query |-> query,
                       provider |-> provider, order |-> order,
                       ttl_hours |-> ttl_hours,
                       ages |-> [i \in 1..Len(order) |->
                                    EntryAge(search_cache,
                                             StrippedQuery(query), order[i],
                                             clock)],
                       ok |-> s.ok, type |-> s.type, error |-> s.error,
                       res |-> s.res, source |-> s.source,
                       used |-> s.provider, called |-> s.called,
                       prev |-> IF /\ ret.op = "search"
                                   /\ ret.source = "network"
                                   /\ ret.query = query
                                THEN [provider |-> ret.used, res |-> ret.res]
                                ELSE [provider |-> "", res |-> NoResult]]
            /\ UNCHANGED <<portal, store, initf, tail, sessions, hypotheses, artifacts, clock, projects, branches,
                           findings, events, missions, provider_state,
                           connectors, nextFid, nextMid, run>>

\* vault search --set-result: the caller's result object is written to the
\* cache under the requested provider, brave when the provider is auto.
SearchSetResult(query, result, provider) ==
    /\ AllIdle
    /\ search_cache' = log_search(search_cache, query, result,
                                  IF provider = "auto" THEN "brave"
                                  ELSE provider, clock)
    /\ ret' = [op |-> "set_result"]
    /\ UNCHANGED <<portal, store, initf, tail, sessions, hypotheses, artifacts, clock, projects, branches, findings,
                   events, missions, provider_state, connectors, nextFid,
                   nextMid, run>>

\* Time passes until the instant t.
Tick(t) ==
    /\ AllIdle
    /\ t > clock
    /\ clock' = t
    /\ ret' = [op |-> "tick"]
    /\ UNCHANGED <<portal, store, initf, tail, sessions, hypotheses, artifacts, projects, branches, findings,
                   events, missions, search_cache, provider_state,
                   connectors, nextFid, nextMid, run>>

----------------------------------------------------------------------------
(* Verification mission engine *)

Perms(S) ==
    {s \in [1..Cardinality(S) -> S] :
        \A i, j \in 1..Cardinality(S) : i # j => s[i] # s[j]}

\* The orders in which a query may return the rows S under ORDER BY, before
\* being the strict order of the sort keys as a set of pairs; rows with equal
\* keys come in any order.
Ordered(S, before) ==
    {s \in Perms(S) :
        \A i, j \in 1..Cardinality(S) : i < j => <<s[j], s[i]>> \notin before}

Limit(s, n) == SubSeq(s, 1, IF n < Len(s) THEN n ELSE Len(s))

\* Hundredths c for which the double (1 - c/100) * 100 falls just below the
\* integer 100 - c.
FloatShort == {34, 55, 56, 67, 68, 78, 79, 80, 81, 89, 90, 91, 92, 93}

\* int((1 - float(confidence)) * 100), confidence in hundredths
PriorityOf(confidence) ==
    IF confidence \in FloatShort THEN 99 - confidence ELSE 100 - confidence

\* tags LIKE '%unverified%'
LikeUnverified(tags) == Contains(tags, "unverified")

\* Top keywords of the text, at most limit of them.
_extract_keywords(text, limit) ==
    LET words == SelectSeq(text, LAMBDA w : w \notin Whitespace \cup {"\n"})
    IN  Limit(words, limit)

RECURSIVE Join(_, _)
Join(sep, words) ==
    IF words = <<>> THEN <<>>
    ELSE IF Len(words) = 1 THEN words
    ELSE <<Head(words), sep>> \o Join(sep, Tail(words))

\* The query planned for a finding: its title, else its keywords.
DerivedQuery(f) ==
    OrElse(f.title,
           Join(" ", _extract_keywords(f.title \o <<"\n">> \o f.content, 6)))

DedupHashById(mid, project_id, branch_id, fid, qhash) == <<"sha256", mid>>

\* hashlib.sha256(f"{project_id}|{branch_id}|{fid}|{qhash}")
DedupHash(mid, project_id, branch_id, fid, qhash) ==
    <<"sha256", project_id, branch_id, fid, qhash>>

\* The verification_missions table keys: id is the primary key and
\* dedup_hash is unique.
MissionConflict(tbl, row) ==
    \E m \in tbl : m.id = row.id \/ m.dedup_hash = row.dedup_hash

PlanCandidates(ftbl, project_id, branch_id, threshold) ==
    {f \in ftbl : /\ f.project_id = project_id
                  /\ f.branch_id = branch_id
                  /\ (f.confidence < threshold \/ LikeUnverified(f.tags))}

\* ORDER BY confidence DESC, created_at DESC
PlanBeforeMostTrusted(f, g) ==
    \/ f.confidence > g.confidence
    \/ f.confidence = g.confidence /\ f.created_at > g.created_at

\* ORDER BY confidence ASC, created_at DESC
PlanBefore(f, g) ==
    \/ f.confidence < g.confidence
    \/ f.confidence = g.confidence /\ f.created_at > g.created_at

\* The loop of plan_verification_missions over the findings fs from index i.
RECURSIVE PlanLoop(_, _, _, _, _, _, _)
PlanLoop(fs, i, tbl, inserted, n, max_missions, now) ==
    IF i > Len(fs) \/ Len(inserted) >= max_missions
    THEN [missions |-> tbl, inserted |-> inserted, n |-> n]
    ELSE LET f == fs[i]
             q == DerivedQuery(f)
             qhash == _query_hash(q)
             mid == MissionId(n + 1)
             row == [id |-> mid, project_id |-> f.project_id,
                     branch_id |-> f.branch_id, finding_id |-> f.id,
                     query |-> q, query_hash |-> qhash, status |-> "open",
                     priority |-> PriorityOf(f.confidence),
                     result_meta |-> <<>>, last_error |-> <<>>,
                     created_at |-> now, completed_at |-> None,
                     dedup_hash |-> DedupHash(mid, f.project_id, f.branch_id,
                                              f.id, qhash)]
         IN  IF MissionConflict(tbl, row)
             THEN PlanLoop(fs, i + 1, tbl, inserted, n, max_missions, now)
             ELSE PlanLoop(fs, i + 1, tbl \cup {row},
                           Append(inserted, <<mid, f.id, q>>), n + 1,
                           max_missions, now)

plan_verification_missions(project_id, branch, threshold, max_missions) ==
    \E r \in {resolve_branch_id(branches, project_id, branch)} :
        IF IsRaised(r.val)
        THEN /\ ret' = [op |-> "plan_verification_missions", raised |-> TRUE,
                        project_id |-> project_id,
                        name |-> NormName(branch), val |-> r.val,
                        branch_id |-> r.val, threshold |-> threshold,
                        max_missions |-> max_missions]
             /\ UNCHANGED <<portal, store, initf, tail, sessions, hypotheses, artifacts, clock, projects, branches, findings, events, missions,
                            search_cache, provider_state, connectors, nextFid,
                            nextMid, run>>
        ELSE \E cand \in {PlanCandidates(findings, project_id, r.val,
                                        threshold)} :
             \E fs \in Ordered(cand, {p \in cand \X cand :
                                         PlanBefore(p[1], p[2])}) :
             \E pl \in {PlanLoop(fs, 1, missions, <<>>, nextMid,
                                 max_missions, nextMid)} :
             \E ev \in {IF pl.inserted # <<>>
                        THEN log_event(r.tbl, events, project_id, "VERIFY",
                                       "plan",
                                       PyDict(<<<<<<"m","i","s","s","i","o","n","s">>,
                                               PyInt(Len(pl.inserted))>>>>),
                                       <<"vault">>, branch, TRUE)
                        ELSE [branches |-> r.tbl, events |-> events,
                              val |-> None]} :
                /\ Len(ev.events) <= MaxEvents
                /\ missions' = pl.missions
                /\ nextMid' = pl.n
                /\ branches' = ev.branches
                /\ events' = ev.events
                /\ ret' = [op |-> "plan_verification_missions",
                           raised |-> FALSE, project_id |-> project_id,
                           name |-> NormName(branch), val |-> None,
                           branch_id |-> r.val, threshold |-> threshold,
                           max_missions |-> max_missions,
                           inserted |-> pl.inserted,
                           prior |-> {m.finding_id : m \in missions},
                           count_before |-> Cardinality(missions)]
                /\ UNCHANGED <<portal, store, initf, tail, sessions, hypotheses, artifacts, clock, projects, findings, search_cache, provider_state,
                               connectors, nextFid, run>>

\* Manual dispatches the model lets the portal make.
MaxMissions == 2

\* POST /missions (create_mission): the finding is looked up, by id only, when
\* the request carries no query, and its title becomes the query; a missing
\* finding raises 404 inside the try block, which the handler turns into 500.
\* The row is inserted with the request's project_id and finding_id, the id of
\* the project's main branch and the hash of the mission id as dedup_hash;
\* then the MISSION / dispatch event is logged.
create_mission(project_id, finding_id, query) ==
    LET found == {f \in findings : f.id = finding_id}
    IN  /\ AllIdle
        /\ IF ~Truthy(query) /\ found = {}
           THEN /\ ret' = [op |-> "create_mission", project_id |-> project_id,
                           finding_id |-> finding_id, query |-> query,
                           status_code |-> 500, mission_id |-> None]
                /\ UNCHANGED <<portal, store, initf, tail, sessions,
                               hypotheses, artifacts, clock, projects,
                               branches, findings, events, missions,
                               search_cache, provider_state, connectors,
                               nextFid, nextMid, run>>
           ELSE \E f \in (IF Truthy(query) THEN {None} ELSE found) :
                \E r \in {resolve_branch_id(branches, project_id, MAIN)} :
                LET q == IF Truthy(query) THEN query ELSE f.title
                    mid == MissionId(nextMid + 1)
                    row == [id |-> mid, project_id |-> project_id,
                            branch_id |-> r.val, finding_id |-> finding_id,
                            query |-> q, query_hash |-> _query_hash(q),
                            status |-> "open", priority |-> 100,
                            result_meta |-> <<>>, last_error |-> <<>>,
                            created_at |-> nextMid, completed_at |-> None,
                            dedup_hash |-> <<"sha256", mid>>]
                    ev == log_event(r.tbl, events, project_id, "MISSION",
                                    "dispatch",
                                    PyDict(<<<<<<"mission_id">>,
                                               PyStr(<<"mis_",
                                                       ToString(nextMid + 1)>>)>>,
                                             <<<<"type">>,
                                               PyStr(<<"SEARCH">>)>>>>),
                                    <<"portal">>, None, TRUE)
                IN  /\ Cardinality(missions) < MaxMissions
                    /\ Len(ev.events) <= MaxEvents
                    /\ missions' = missions \cup {row}
                    /\ nextMid' = nextMid + 1
                    /\ branches' = ev.branches
                    /\ events' = ev.events
                    /\ ret' = [op |-> "create_mission",
                               project_id |-> project_id,
                               finding_id |-> finding_id, query |-> query,
                               status_code |-> 200, mission_id |-> mid]
                    /\ UNCHANGED <<portal, store, initf, tail, sessions,
                                   hypotheses, artifacts, clock, projects,
                                   findings, search_cache, provider_state,
                                   connectors, nextFid, run>>

\* Manual status update of one mission by the operator.
set_verification_mission_status(mid, status) ==
    /\ \E m \in missions : m.id = mid
    /\ missions' = {IF m.id = mid THEN [m EXCEPT !.status = status] ELSE m :
                       m \in missions}
    /\ ret' = [op |-> "set_verification_mission_status"]
    /\ UNCHANGED <<portal, store, initf, tail, sessions, hypotheses, artifacts, clock, projects, branches, findings, events, search_cache,
                   provider_state, connectors, nextFid, nextMid, run>>

\* SELECT ... WHERE project_id=? AND branch_id=?, any status
SelectMissionsAnyStatus(tbl, project_id, branch_id, status) ==
    {m \in tbl : m.project_id = project_id /\ m.branch_id = branch_id}

\* SELECT ... WHERE project_id=? AND branch_id=? AND status=?
SelectMissions(tbl, project_id, branch_id, status) ==
    {m \in tbl : /\ m.project_id = project_id
                 /\ m.branch_id = branch_id
                 /\ m.status = status}

\* ORDER BY created_at ASC
RunBeforeOldestFirst(m, k) == m.created_at < k.created_at

\* ORDER BY priority DESC, created_at ASC
RunBefore(m, k) ==
    \/ m.priority > k.priority
    \/ m.priority = k.priority /\ m.created_at < k.created_at

\* UPDATE verification_missions SET <set> WHERE id = mid; set is a record of
\* the assigned columns.
UpdateMission(tbl, mid, set) ==
    {IF m.id = mid
     THEN [c \in DOMAIN m |-> IF c \in DOMAIN set THEN set[c] ELSE m[c]]
     ELSE m : m \in tbl}

\* The status a mission is given when its execution raises.
FailureStatusBlocked == "blocked"

FailureStatus == "open"

\* The loop index after a mission whose execution raised.
AbortAfterFailure(idx, n) == n + 1

AfterFailure(idx, n) == idx + 1

\* Entry of run_verification_missions: resolve the branch, select the rows.
RunBegin(r, project_id, branch, status, limit) ==
    /\ run[r].pc = "idle"
    /\ \E b \in {resolve_branch_id(branches, project_id, branch)} :
        IF IsRaised(b.val)
        THEN /\ ret' = [op |-> "run_verification_missions", raised |-> TRUE]
             /\ UNCHANGED <<portal, store, initf, tail, sessions, hypotheses, artifacts, clock, projects, branches, findings, events, missions,
                            search_cache, provider_state, connectors, nextFid,
                            nextMid, run>>
        ELSE \E rows \in {SelectMissions(missions, project_id, b.val,
                                         status)} :
             \E sel \in Ordered(rows, {p \in rows \X rows :
                                          RunBefore(p[1], p[2])}) :
                /\ branches' = b.tbl
                /\ run' = [run EXCEPT ![r] =
                             [pc |-> "loop", project_id |-> project_id,
                              branch |-> branch, branch_id |-> b.val,
                              status |-> status, limit |-> limit,
                              rows |-> [i \in 1..Len(Limit(sel, limit)) |->
                                          [id |-> sel[i].id,
                                           query |-> sel[i].query]],
                              idx |-> 1, results |-> <<>>]]
                /\ ret' = [op |-> "pending"]
                /\ UNCHANGED <<portal, store, initf, tail, sessions, hypotheses, artifacts, clock, projects, findings, events, missions,
                               search_cache, provider_state, connectors, nextFid,
                               nextMid>>

\* UPDATE ... SET status='in_progress' WHERE id=mid; commit
RunMark(r) ==
    /\ run[r].pc = "loop"
    /\ run[r].idx <= Len(run[r].rows)
    /\ missions' = UpdateMission(missions, run[r].rows[run[r].idx].id,
                       [status |-> "in_progress"])
    /\ run' = [run EXCEPT ![r].pc = "search"]
    /\ UNCHANGED <<portal, store, initf, tail, sessions, hypotheses, artifacts, clock, projects, branches, findings, events, search_cache,
                   provider_state, connectors, nextFid, nextMid, ret>>

\* The try block for the current row: search, record done and log the event,
\* or the except block. evOK = FALSE is the event INSERT failing.
RunSearch(r, evOK) ==
    /\ run[r].pc = "search"
    /\ LET f == run[r]
           mid == f.rows[f.idx].id
           q == f.rows[f.idx].query
       IN  \E s \in {search(q, "auto", <<>>, 24, <<>>, search_cache,
                            provider_state, clock)} :
           \E ev \in {log_event(branches, events, f.project_id, "VERIFY",
                                "run",
                                PyDict(<<<<<<"m","i","s","s","i","o","n","_","i","d">>,
                                        PyStr(<<"mis_", ToString(mid[2])>>)>>,
                                       <<<<"q","u","e","r","y">>, PyStr(q)>>>>),
                                <<"vault">>, f.branch, evOK)} :
           LET meta == <<_query_hash(q), s.provider, s.source>>
               done == UpdateMission(missions, mid,
                          [status |-> "done", result_meta |-> meta,
                           completed_at |-> <<"now">>])
           IN  /\ search_cache' = s.cache
               /\ IF ~s.ok
                  THEN /\ missions' = UpdateMission(missions, mid,
                              [status |-> FailureStatus,
                               last_error |-> s.error])
                       /\ run' = [run EXCEPT
                              ![r].pc = "loop",
                              ![r].idx = AfterFailure(f.idx, Len(f.rows)),
                              ![r].results = Append(@,
                                  [id |-> mid, status |-> "open",
                                   error |-> s.error, cause |-> "search"])]
                       /\ UNCHANGED <<portal, store, initf, tail, sessions, hypotheses, artifacts, clock, branches, events>>
                  ELSE IF IsRaised(ev.val)
                  THEN /\ missions' = UpdateMission(done, mid,
                              [status |-> FailureStatus,
                               last_error |-> <<ErrorText(ev.val)>>])
                       /\ run' = [run EXCEPT
                              ![r].pc = "loop",
                              ![r].idx = AfterFailure(f.idx, Len(f.rows)),
                              ![r].results = Append(@,
                                  [id |-> mid, status |-> "open",
                                   error |-> <<ErrorText(ev.val)>>,
                                   cause |-> "event"])]
                       /\ UNCHANGED <<portal, store, initf, tail, sessions, hypotheses, artifacts, clock, branches, events>>
                  ELSE /\ Len(ev.events) <= MaxEvents
                       /\ missions' = done
                       /\ branches' = ev.branches
                       /\ events' = ev.events
                       /\ run' = [run EXCEPT
                              ![r].pc = "loop",
                              ![r].idx = f.idx + 1,
                              ![r].results = Append(@,
                                  [id |-> mid, status |-> "done", query |-> q,
                                   meta |-> meta, cause |-> ""])]
    /\ UNCHANGED <<portal, store, initf, tail, sessions, hypotheses, artifacts, clock, projects, findings, provider_state, connectors, nextFid, nextMid,
                   ret>>

\* conn.close(); return results
RunEnd(r) ==
    /\ run[r].pc = "loop"
    /\ run[r].idx > Len(run[r].rows)
    /\ ret' = [op |-> "run_verification_missions", raised |-> FALSE,
               runner |-> r, project_id |-> run[r].project_id,
               branch_id |-> run[r].branch_id, status |-> run[r].status,
               rows |-> run[r].rows, results |-> run[r].results]
    /\ run' = [run EXCEPT ![r] = IdleFrame]
    /\ UNCHANGED <<portal, store, initf, tail, sessions, hypotheses, artifacts, clock, projects, branches, findings, events, missions,
                   search_cache, provider_state, connectors, nextFid, nextMid>>

\* The environment puts the providers in the states st.
ProviderChange(st) ==
    /\ st # provider_state
    /\ provider_state' = st
    /\ ret' = [op |-> "provider_change"]
    /\ UNCHANGED <<portal, store, initf, tail, sessions, hypotheses, artifacts, clock, projects, branches, findings, events, missions,
                   search_cache, connectors, nextFid, nextMid, run>>

----------------------------------------------------------------------------
(* scripts/db.py: init_db and the versioned migrations *)

\* The migrations list of _run_migrations; a migration's version is its
\* position in the list.
LatestVersion == 3

V1Tables == <<"projects", "events", "search_cache", "insights">>

V2Tables == <<"artifacts", "findings", "links">>

Range(seq) == {seq[i] : i \in 1..Len(seq)}

\* What the statements of process p read: its own uncommitted changes when
\* it has a transaction open, the committed file otherwise.
View(p) == IF initf[p].tx.open THEN initf[p].tx.db ELSE store

\* Another connection holds the write lock of the file.
LockedByOther(p) == \E q \in Processes \ {p} : initf[q].tx.open

\* cursor.fetchone() on SELECT version FROM schema_version: the first row in
\* primary-key order, or no row.
FetchVersion(db) ==
    IF db.schema_version = {} THEN 0
    ELSE CHOOSE v \in db.schema_version : \A w \in db.schema_version : v <= w

\* CREATE TABLE IF NOT EXISTS.
CreateTable(db, name) == [db EXCEPT !.tables = @ \cup {name}]

\* INSERT INTO schema_version (version) VALUES (?): the primary key rejects a
\* version that already has a row.
InsertVersion(db, version) ==
    IF version \in db.schema_version
    THEN [ok |-> FALSE, db |-> db]
    ELSE [ok |-> TRUE, db |-> [db EXCEPT !.schema_version = @ \cup {version}]]

\* UPDATE schema_version SET version = ?: every row gets the version, which
\* the primary key rejects when there is more than one row.
UpdateVersion(db, version) ==
    IF Cardinality(db.schema_version) > 1
    THEN [ok |-> FALSE, db |-> db]
    ELSE [ok |-> TRUE,
          db |-> [db EXCEPT !.schema_version = {version : r \in @}]]

\* INSERT INTO findings of _migration_v3 for one insight row.
InsertFinding(db, title) == [db EXCEPT !.findings = Append(@, title)]

\* Number of statements of migration i as process p runs it: the CREATE
\* TABLEs of v1 and v2; for v3 the SELECT and one INSERT per fetched row.
StatementCount(p, version) ==
    CASE version = 1 -> Len(V1Tables)
      [] version = 2 -> Len(V2Tables)
      [] OTHER -> 1 + Len(initf[p].insights)

\* The statement process p executes next needs the write lock: a CREATE
\* TABLE of a table that is not there, an INSERT or an UPDATE.
NeedsWrite(p) ==
    LET f == initf[p]
    IN  CASE f.pc = "bump" -> TRUE
          [] f.pc = "migrate" /\ f.i = 1 -> V1Tables[f.stmt] \notin View(p).tables
          [] f.pc = "migrate" /\ f.i = 2 -> V2Tables[f.stmt] \notin View(p).tables
          [] f.pc = "migrate" /\ f.i = 3 -> f.stmt > 1
          [] OTHER -> FALSE

\* The statement can run now: it needs no lock, or the lock is free or held
\* by p's own transaction.
CanRun(p) == NeedsWrite(p) => ~LockedByOther(p)

\* The loop without its version > current_version test.
NextVersionAll(current_version, i) == i + 1

\* The position of the for loop after version i was dealt with: the next
\* version above current_version, or the end of the list.
NextVersion(current_version, i) ==
    IF i + 1 > current_version THEN i + 1 ELSE current_version + 1

\* print(f"Running migration v{version}...") when the loop enters version n.
Running(out, n) == IF n > LatestVersion THEN out ELSE Append(out, n)

Others == <<projects, branches, findings, events, missions, search_cache,
            provider_state, clock, connectors, nextFid, nextMid, run,
            hypotheses, artifacts, tail, sessions, portal>>

\* init_db up to the SELECT of _run_migrations: CREATE TABLE IF NOT EXISTS
\* schema_version, committed at once.
InitDbBegin(p) ==
    /\ initf[p].pc \in {"idle", "done", "failed"}
    /\ "schema_version" \notin store.tables => ~LockedByOther(p)
    /\ store' = CreateTable(store, "schema_version")
    /\ initf' = [initf EXCEPT ![p] = [InitIdle EXCEPT !.pc = "select"]]
    /\ ret' = [op |-> "init_db", process |-> p, step |-> "create"]
    /\ UNCHANGED Others

\* SELECT version FROM schema_version; current_version = row[0] if row else 0.
SelectVersion(p) ==
    /\ initf[p].pc = "select"
    /\ LET v == FetchVersion(View(p))
           n == NextVersion(v, 0)
       IN  initf' = [initf EXCEPT ![p].current_version = v,
                                  ![p].i = n,
                                  ![p].stmt = 1,
                                  ![p].out = Running(@, n),
                                  ![p].pc = IF n > LatestVersion
                                            THEN "commit" ELSE "migrate"]
    /\ ret' = [op |-> "init_db", process |-> p, step |-> "select"]
    /\ UNCHANGED <<store, Others>>

\* After statement stmt of migration i: the next statement, or the version
\* bump when the migration function returns.
AfterStatement(p, f) ==
    IF f.stmt >= StatementCount(p, f.i) THEN [f EXCEPT !.pc = "bump"]
    ELSE [f EXCEPT !.stmt = @ + 1]

\* One statement of migration_fn(cursor). A CREATE TABLE outside a
\* transaction is committed at once; inside the transaction an earlier INSERT
\* or UPDATE opened (sqlite3's implicit BEGIN) it joins that transaction.
MigrationStatement(p) ==
    LET f == initf[p]
    IN  /\ f.pc = "migrate"
        /\ CanRun(p)
        /\ CASE f.i = 1 ->
                    IF f.tx.open
                    THEN /\ initf' = [initf EXCEPT ![p] =
                                 AfterStatement(p, [f EXCEPT !.tx =
                                     OpenTx(CreateTable(f.tx.db, V1Tables[f.stmt]))])]
                         /\ UNCHANGED store
                    ELSE /\ store' = CreateTable(store, V1Tables[f.stmt])
                         /\ initf' = [initf EXCEPT ![p] = AfterStatement(p, f)]
             [] f.i = 2 ->
                    IF f.tx.open
                    THEN /\ initf' = [initf EXCEPT ![p] =
                                 AfterStatement(p, [f EXCEPT !.tx =
                                     OpenTx(CreateTable(f.tx.db, V2Tables[f.stmt]))])]
                         /\ UNCHANGED store
                    ELSE /\ store' = CreateTable(store, V2Tables[f.stmt])
                         /\ initf' = [initf EXCEPT ![p] = AfterStatement(p, f)]
             [] OTHER ->
                    IF f.stmt = 1
                    THEN \* SELECT ... FROM insights; fetchall()
                         LET g == [f EXCEPT !.insights = View(p).insights]
                         IN  /\ initf' = [initf EXCEPT ![p] =
                                   IF g.insights = <<>>
                                   THEN [g EXCEPT !.pc = "bump"]
                                   ELSE [g EXCEPT !.stmt = 2]]
                             /\ UNCHANGED store
                    ELSE \* INSERT INTO findings for the next fetched row
                         LET db == InsertFinding(View(p), f.insights[f.stmt - 1])
                         IN  /\ initf' = [initf EXCEPT ![p] =
                                   AfterStatement(p, [f EXCEPT !.tx = OpenTx(db)])]
                             /\ UNCHANGED store
        /\ ret' = [op |-> "init_db", process |-> p, step |-> "statement"]
        /\ UNCHANGED Others

\* The version bump after migration i: INSERT when current_version is 0,
\* UPDATE otherwise. A constraint error leaves init_db as an exception; the
\* connection is dropped with its transaction uncommitted.
VersionBump(p) ==
    LET f == initf[p]
        r == IF f.current_version = 0
             THEN InsertVersion(View(p), f.i)
             ELSE UpdateVersion(View(p), f.i)
        n == NextVersion(f.i, f.i)
    IN  /\ f.pc = "bump"
        /\ CanRun(p)
        /\ initf' = [initf EXCEPT ![p] =
               IF r.ok
               THEN [f EXCEPT !.tx = OpenTx(r.db),
                              !.current_version = f.i,
                              !.i = n,
                              !.stmt = 1,
                              !.out = Running(@, n),
                              !.pc = IF n > LatestVersion THEN "commit"
                                     ELSE "migrate"]
               ELSE [f EXCEPT !.tx = NoTx,
                              !.pc = "failed",
                              !.error = Raised("IntegrityError")]]
        /\ ret' = [op |-> "init_db", process |-> p, step |-> "bump"]
        /\ UNCHANGED <<store, Others>>

\* conn.commit(); conn.close().
InitDbCommit(p) ==
    LET f == initf[p]
    IN  /\ f.pc = "commit"
        /\ store' = View(p)
        /\ initf' = [initf EXCEPT ![p].tx = NoTx, ![p].pc = "done"]
        /\ ret' = [op |-> "init_db", process |-> p, step |-> "commit"]
        /\ UNCHANGED Others

\* The write lock stays with another connection for longer than the
\* connection's busy timeout: sqlite3 raises OperationalError.
InitDbLocked(p) ==
    LET f == initf[p]
    IN  /\ f.pc \in {"migrate", "bump"}
        /\ NeedsWrite(p)
        /\ LockedByOther(p)
        /\ initf' = [initf EXCEPT ![p].tx = NoTx,
                                  ![p].pc = "failed",
                                  ![p].error = Raised("OperationalError: database is locked")]
        /\ ret' = [op |-> "init_db", process |-> p, step |-> "locked"]
        /\ UNCHANGED <<store, Others>>

\* A statement of a migration raises (disk error, interrupted process): the
\* exception leaves init_db before conn.commit().
StatementFails(p) ==
    LET f == initf[p]
    IN  /\ f.pc \in {"migrate", "bump"}
        /\ initf' = [initf EXCEPT ![p].tx = NoTx,
                                  ![p].pc = "failed",
                                  ![p].error = Raised("Exception")]
        /\ ret' = [op |-> "init_db", process |-> p, step |-> "raise"]
        /\ UNCHANGED <<store, Others>>

NoCallInProgress == \A q \in Processes : initf[q].pc \in {"idle", "done", "failed"}

\* Database files init_db can find: none yet, or one left at version v by a
\* release that had the first v migrations, with the insights rows written
\* since.
InsightRows == {<<>>, <<"t">>, <<"t", "u">>}

StoreAt(version, rows) ==
    [tables |-> {"schema_version"} \cup Range(V1Tables)
                    \cup (IF version >= 2 THEN Range(V2Tables) ELSE {}),
     schema_version |-> {version},
     insights |-> rows,
     findings |-> IF version >= 3 THEN rows ELSE <<>>]

ExistingStores ==
    {FreshStore} \cup {StoreAt(v, rows) : v \in 1..LatestVersion, rows \in InsightRows}

InitStores == InitBase /\ store \in ExistingStores

\* init_db called again and again, one call at a time.
NextInitSeq ==
    \/ \E p \in Processes : NoCallInProgress /\ InitDbBegin(p)
    \/ \E p \in Processes : SelectVersion(p)
    \/ \E p \in Processes : MigrationStatement(p)
    \/ \E p \in Processes : VersionBump(p)
    \/ \E p \in Processes : InitDbCommit(p)

SpecInitSeq == InitStores /\ [][NextInitSeq]_vars

\* _migration_v3 as one function of the database: every row of insights is
\* inserted into findings under a fresh uuid4 id.
RECURSIVE InsertFindings(_, _)
InsertFindings(db, insights) ==
    IF insights = <<>> THEN db
    ELSE InsertFindings(InsertFinding(db, Head(insights)), Tail(insights))

_migration_v3(db) == InsertFindings(db, db.insights)

MaxBackfilled == 4

\* The backfill executed outside the version test of _run_migrations, on a
\* store that has both tables, and committed.
RerunMigrationV3 ==
    /\ NoCallInProgress
    /\ {"insights", "findings"} \subseteq store.tables
    /\ Len(_migration_v3(store).findings) <= MaxBackfilled
    /\ store' = _migration_v3(store)
    /\ ret' = [op |-> "_migration_v3"]
    /\ UNCHANGED <<initf, Others>>

NextRerun ==
    \/ NextInitSeq
    \/ RerunMigrationV3

SpecRerun == InitStores /\ [][NextRerun]_vars

\* One call at a time, where a statement of a migration can raise.
NextInitCrash ==
    \/ NextInitSeq
    \/ \E p \in Processes : StatementFails(p)

SpecInitCrash == InitStores /\ [][NextInitCrash]_vars

\* Two processes calling init_db on the same file at any time.
NextInitConc ==
    \/ \E p \in Processes : InitDbBegin(p)
    \/ \E p \in Processes : SelectVersion(p)
    \/ \E p \in Processes : MigrationStatement(p)
    \/ \E p \in Processes : VersionBump(p)
    \/ \E p \in Processes : InitDbCommit(p)
    \/ \E p \in Processes : InitDbLocked(p)

SpecInitConc == InitStores /\ [][NextInitConc]_vars

----------------------------------------------------------------------------
(* portal/backend/app/routers/stream.py: event_generator *)

\* Rows one poll returns at most; the SELECT's LIMIT, scaled down.
PollLimit == 2

\* Events logged while the stream is watched.
MaxStreamEvents == 3

\* if project_id: the filter applies for a non-empty project id only.
MatchesFilter(project_id, row) == Truthy(project_id) => row.project_id = project_id

RECURSIVE FirstRows(_, _, _, _, _)
\* SELECT id ... FROM events WHERE id > ? [AND project_id = ?] ORDER BY id ASC
\* LIMIT n, scanning the table from id i on.
FirstRows(evs, i, current_id, project_id, n) ==
    IF i > Len(evs) \/ n = 0 THEN <<>>
    ELSE IF i > current_id /\ MatchesFilter(project_id, evs[i])
    THEN <<i>> \o FirstRows(evs, i + 1, current_id, project_id, n - 1)
    ELSE FirstRows(evs, i + 1, current_id, project_id, n)

\* The same SELECT with id >= ? in place of id > ?.
FetchRowsInclusive(evs, current_id, project_id) ==
    FirstRows(evs, 1, current_id - 1, project_id, PollLimit)

FetchRows(evs, current_id, project_id) ==
    FirstRows(evs, 1, current_id, project_id, PollLimit)

TailRest == <<projects, findings, missions, search_cache, provider_state,
              clock, connectors, nextFid, nextMid, run, hypotheses, artifacts,
              store, initf, sessions, portal>>

\* GET /stream: the generator starts at last_event_id and yields its first
\* pulse.
stream_events(project_id, last_event_id) ==
    /\ tail.pc = "idle"
    /\ tail' = [TailIdle EXCEPT !.pc = "poll", !.project_id = project_id,
                                 !.last_id = last_event_id,
                                 !.current_id = last_event_id]
    /\ ret' = [op |-> "stream_events", event |-> "pulse"]
    /\ UNCHANGED <<branches, events, TailRest>>

\* One pass of the while loop up to the first yield: the SELECT and
\* fetchall(); with no rows the heartbeat pulse is yielded.
TailPoll ==
    /\ tail.pc = "poll"
    /\ LET rows == FetchRows(events, tail.current_id, tail.project_id)
       IN  /\ tail' = [tail EXCEPT !.rows = rows,
                                   !.pc = IF rows = <<>> THEN "poll" ELSE "yield"]
           /\ ret' = [op |-> "event_generator",
                      event |-> IF rows = <<>> THEN "pulse" ELSE "rows"]
    /\ UNCHANGED <<branches, events, TailRest>>

\* The body of for row in rows: current_id = event_id, then the log event is
\* yielded to the client.
TailYield ==
    /\ tail.pc = "yield"
    /\ LET event_id == Head(tail.rows)
       IN  /\ tail' = [tail EXCEPT !.current_id = event_id,
                                   !.yielded = Append(@, event_id),
                                   !.rows = Tail(@),
                                   !.pc = IF Tail(tail.rows) = <<>>
                                          THEN "poll" ELSE "yield"]
           /\ ret' = [op |-> "event_generator", event |-> "log", id |-> event_id]
    /\ UNCHANGED <<branches, events, TailRest>>

\* The except branch of the loop: the connection or the SELECT raises, an
\* error event is yielded and the loop goes on after the backoff.
TailError ==
    /\ tail.pc = "poll"
    /\ ret.op # "event_generator_error"
    /\ ret' = [op |-> "event_generator_error", event |-> "error"]
    /\ UNCHANGED <<tail, branches, events, TailRest>>

\* log_event called by a writer while the stream is open or not.
StreamedLogEvent(project_id) ==
    LET e == log_event(branches, events, project_id, "NOTE", "s",
                       PyDict(<<>>), <<"vault">>, None, TRUE)
    IN  /\ Len(e.events) <= MaxStreamEvents
        /\ branches' = e.branches
        /\ events' = e.events
        /\ ret' = [op |-> "log_event", project_id |-> project_id,
                   name |-> MAIN, val |-> e.val]
        /\ UNCHANGED <<tail, TailRest>>

\* A stream client tailing the event log while a writer logs events of two
\* projects.
StreamFilters == {None, <<"a", ".", "b">>}

StreamStarts == {0, 1}

NextTail ==
    \/ \E p \in StreamFilters, last \in StreamStarts : stream_events(p, last)
    \/ TailPoll
    \/ TailYield
    \/ TailError
    \/ \E p \in ProjectIds : StreamedLogEvent(p)

SpecTail ==
    /\ Init
    /\ [][NextTail]_vars
    /\ WF_vars(TailPoll)
    /\ WF_vars(TailYield)

----------------------------------------------------------------------------
(* portal/backend/app/auth.py: in-memory sessions *)

SESSION_TTL_S == 43200

\* Sessions issued in one run of the portal.
MaxSessions == 2

\* secrets.token_urlsafe(32): a string no earlier call returned.
SessionId(n) == <<"sid", n>>

HTTPException(status_code, detail) == Raised(<<status_code, detail>>)

\* _expected_token: the configured token, or 403 when the variable is unset
\* or empty.
_expected_token(env) ==
    IF ~Truthy(env)
    THEN HTTPException(403, "Portal token not configured")
    ELSE env

\* time.time() - sess.created_at >= SESSION_TTL_S
SessionExpiredAtTtl(now, created_at) == now - created_at >= SESSION_TTL_S

\* time.time() - sess.created_at > SESSION_TTL_S
SessionExpired(now, created_at) == now - created_at > SESSION_TTL_S

\* _SESSIONS.get(sid): the rows stored under the key, none or one.
SessionRows(dict, sid) == {s \in dict : s.sid = sid}

AuthRest == <<projects, branches, findings, events, missions, search_cache,
              provider_state, connectors, nextFid, nextMid, run, hypotheses,
              artifacts, store, initf, tail, portal>>

create_session(provided_token, env) ==
    LET expected == _expected_token(env)
        sid == SessionId(sessions.issued + 1)
    IN  /\ sessions.issued < MaxSessions
        /\ IF IsRaised(expected)
           THEN /\ ret' = [op |-> "create_session", token |-> provided_token,
                           env |-> env, val |-> expected]
                /\ UNCHANGED sessions
           ELSE IF ~Truthy(provided_token) \/ provided_token # expected
           THEN /\ ret' = [op |-> "create_session", token |-> provided_token,
                           env |-> env,
                           val |-> HTTPException(401, "Unauthorized")]
                /\ UNCHANGED sessions
           ELSE /\ sessions' = [dict |-> sessions.dict \cup
                                    {[sid |-> sid, created_at |-> clock]},
                                issued |-> sessions.issued + 1]
                /\ ret' = [op |-> "create_session", token |-> provided_token,
                           env |-> env, val |-> sid]
        /\ UNCHANGED <<clock, AuthRest>>

revoke_session(session_id) ==
    /\ sessions' = [sessions EXCEPT !.dict =
                       IF Truthy(session_id) THEN @ \ SessionRows(@, session_id)
                       ELSE @]
    /\ ret' = [op |-> "revoke_session", sid |-> session_id, val |-> None]
    /\ UNCHANGED <<clock, AuthRest>>

require_session(rv_session) ==
    LET rows == SessionRows(sessions.dict, rv_session)
    IN  /\ IF ~Truthy(rv_session) \/ rows = {}
           THEN /\ ret' = [op |-> "require_session", sid |-> rv_session,
                           val |-> HTTPException(401, "Unauthorized")]
                /\ UNCHANGED sessions
           ELSE IF \E s \in rows : SessionExpired(clock, s.created_at)
           THEN /\ sessions' = [sessions EXCEPT !.dict = @ \ rows]
                /\ ret' = [op |-> "require_session", sid |-> rv_session,
                           val |-> HTTPException(401, "Session expired")]
           ELSE /\ ret' = [op |-> "require_session", sid |-> rv_session,
                           val |-> None]
                /\ UNCHANGED sessions
        /\ UNCHANGED <<clock, AuthRest>>

\* The portal with its token configured or not, clients presenting right,
\* wrong and empty tokens and cookies, around the twelve-hour mark.
PortalToken == <<"t0k3n">>

TokenArgs == {None, <<>>, PortalToken, <<"bad">>}

TokenEnvs == {None, PortalToken}

CookieArgs == {None, <<>>} \cup {SessionId(n) : n \in 1..MaxSessions}

SessionInstants == {1, 43199, 43200, 43201, 43202, 86401}

NextSession ==
    \/ \E t \in TokenArgs, env \in TokenEnvs : create_session(t, env)
    \/ \E sid \in CookieArgs : require_session(sid)
    \/ \E sid \in CookieArgs : revoke_session(sid)
    \/ \E t \in SessionInstants : Tick(t)

SpecSession == Init /\ [][NextSession]_vars

----------------------------------------------------------------------------
(* Listings of branches and hypotheses *)

\* The strict order ORDER BY created_at ASC puts on the rows.
CreatedAsc(rows) == {<<a, b>> \in rows \X rows : a.created_at < b.created_at}

\* ORDER BY created_at DESC
CreatedDesc(rows) == {<<a, b>> \in rows \X rows : a.created_at > b.created_at}

\* list_branches: the project's branches, ORDER BY created_at ASC.
list_branches(tbl, project_id) ==
    LET rows == {b \in tbl : b.project_id = project_id}
    IN  CHOOSE s \in Ordered(rows, CreatedAsc(rows)) : TRUE

\* list_hypotheses: hypotheses JOIN branches of the project, of one branch
\* when a branch is given (resolved first), ORDER BY h.created_at DESC.
list_hypotheses(btbl, htbl, project_id, branch) ==
    LET r == IF Truthy(branch) THEN resolve_branch_id(btbl, project_id, branch)
             ELSE [tbl |-> btbl, val |-> None]
        rows == {h \in htbl :
                    /\ \E b \in r.tbl : b.id = h.branch_id
                                         /\ b.project_id = project_id
                    /\ Truthy(branch) => h.branch_id = r.val}
    IN  IF IsRaised(r.val)
        THEN [branches |-> btbl, raised |-> TRUE, val |-> r.val]
        ELSE [branches |-> r.tbl, raised |-> FALSE,
              val |-> CHOOSE s \in Ordered(rows, CreatedDesc(rows)) : TRUE]

ListBranches(project_id) ==
    /\ AllIdle
    /\ ret' = [op |-> "list_branches", project_id |-> project_id,
               raised |-> FALSE, val |-> list_branches(branches, project_id)]
    /\ UNCHANGED <<portal, store, initf, tail, sessions, hypotheses,
                   artifacts, clock, projects, branches, findings, events,
                   missions, search_cache, provider_state, connectors,
                   nextFid, nextMid, run>>

ListHypotheses(project_id, branch) ==
    LET l == list_hypotheses(branches, hypotheses, project_id, branch)
    IN  /\ AllIdle
        /\ branches' = l.branches
        /\ ret' = [op |-> "list_hypotheses", project_id |-> project_id,
                   branch |-> branch, raised |-> l.raised, val |-> l.val]
        /\ UNCHANGED <<portal, store, initf, tail, sessions, hypotheses,
                       artifacts, clock, projects, findings, events,
                       missions, search_cache, provider_state, connectors,
                       nextFid, nextMid, run>>

NextList ==
    \/ \E p \in ProjectIds, n \in {BranchX, MAIN} :
          CreateBranch(p, n, None, <<>>)
    \/ \E b \in {None, BranchX} :
          AddHypothesis(<<"a", ".", "b">>, b, <<"s">>)
    \/ \E p \in ProjectIds : ListBranches(p)
    \/ \E p \in ProjectIds, b \in {None, BranchX} : ListHypotheses(p, b)

SpecList == Init /\ [][NextList]_vars

----------------------------------------------------------------------------
(* portal/backend/app/portal_secrets.py and vault_exec.py *)

NonBlank(v) == v # None /\ Strip(v) # <<>>

PersistEnabledWhenSet(env) == env[PERSIST_SECRETS] # None

\* os.getenv("RESEARCHVAULT_PORTAL_PERSIST_SECRETS") == "1"
_persist_enabled(env) == env[PERSIST_SECRETS] = <<"1">>

_read_secrets(file) == IF file.exists THEN file.data ELSE NoSecrets

_write_secrets(data) == [exists |-> TRUE, data |-> data]

_runtime_secret(runtime, name) ==
    IF NonBlank(runtime[name]) THEN Strip(runtime[name]) ELSE None

\* get_brave_api_key, get_serper_api_key, get_searxng_base_url: the
\* environment first (stripped for the SearxNG URL only), then the runtime
\* dict, then the file when persistence is enabled.
get_secret(p, name) ==
    LET env == p.env[EnvVar(name)]
        data == _read_secrets(p.file)
    IN  IF name = "searxng_base_url" /\ NonBlank(env) THEN Strip(env)
        ELSE IF name # "searxng_base_url" /\ Truthy(env) THEN env
        ELSE IF Truthy(_runtime_secret(p.runtime, name))
        THEN _runtime_secret(p.runtime, name)
        ELSE IF _persist_enabled(p.env) /\ NonBlank(data[name])
        THEN Strip(data[name])
        ELSE None

secrets_status(p) ==
    LET data == IF _persist_enabled(p.env) THEN _read_secrets(p.file)
                ELSE NoSecrets
        key(n) == IF NonBlank(p.runtime[n]) THEN p.runtime[n] ELSE data[n]
    IN  [n \in SecretNames |->
            IF Truthy(p.env[EnvVar(n)])
            THEN [configured |-> TRUE, source |-> "env"]
            ELSE IF NonBlank(key(n))
            THEN [configured |-> TRUE, source |-> "portal"]
            ELSE [configured |-> FALSE, source |-> "none"]]

PortalRest == <<projects, branches, findings, events, missions, search_cache,
                provider_state, clock, connectors, nextFid, nextMid, run,
                hypotheses, artifacts, store, initf, tail, sessions>>

\* The portal process starts with the environment it is given.
PortalStart(env) ==
    /\ ~portal.up
    /\ portal' = [portal EXCEPT !.up = TRUE, !.env = env]
    /\ ret' = [op |-> "portal_start"]
    /\ UNCHANGED PortalRest

\* set_brave_api_key, set_serper_api_key, set_searxng_base_url
set_secret(name, value) ==
    LET key == Strip(OrElse(value, <<>>))
        data == [_read_secrets(portal.file) EXCEPT ![name] = key]
        after == [portal EXCEPT
                    !.runtime[name] = key,
                    !.file = IF _persist_enabled(portal.env)
                             THEN _write_secrets(data) ELSE @]
    IN  /\ portal.up
        /\ IF ~Truthy(key)
           THEN /\ ret' = [op |-> "set_secret", name |-> name, key |-> key,
                           raised |-> TRUE,
                           val |-> Raised("ValueError: must be non-empty")]
                /\ UNCHANGED portal
           ELSE /\ portal' = after
                /\ ret' = [op |-> "set_secret", name |-> name, key |-> key,
                           raised |-> FALSE,
                           val |-> secrets_status(after)]
        /\ UNCHANGED PortalRest

\* clear_brave_api_key, clear_serper_api_key, clear_searxng_base_url: the
\* file is rewritten without the key, or unlinked when nothing is left.
clear_secret(name) ==
    LET data == [_read_secrets(portal.file) EXCEPT ![name] = None]
        after == [portal EXCEPT
                    !.runtime[name] = None,
                    !.file = IF ~_persist_enabled(portal.env) THEN @
                             ELSE IF data # NoSecrets
                             THEN _write_secrets(data)
                             ELSE [exists |-> FALSE, data |-> NoSecrets]]
    IN  /\ portal.up
        /\ portal' = after
        /\ ret' = [op |-> "clear_secret", name |-> name,
                   val |-> secrets_status(after)]
        /\ UNCHANGED PortalRest

\* run_vault: the environment handed to subprocess.run, restricted to the
\* three secret variables (None: the variable is not in it).
run_vault(args) ==
    LET env == [v \in {EnvVar(n) : n \in SecretNames} |->
                   LET n == CHOOSE m \in SecretNames : EnvVar(m) = v
                   IN  IF ~Truthy(portal.env[v]) /\ Truthy(get_secret(portal, n))
                       THEN get_secret(portal, n)
                       ELSE portal.env[v]]
    IN  /\ portal.up
        /\ ret' = [op |-> "run_vault", args |-> args, env |-> env]
        /\ UNCHANGED <<portal, PortalRest>>

SecretArgs == {<<"k">>, <<" ", "j">>, <<" ">>}

PortalEnvs ==
    {[v \in EnvVars |->
         CASE v = PERSIST_SECRETS -> persist
           [] v = INJECT_SECRETS -> inject
           [] v = "BRAVE_API_KEY" -> brave
           [] OTHER -> None] :
       persist \in {None, <<"0">>, <<"1">>}, inject \in {None, <<"1">>},
       brave \in {None, <<"e">>}}

NextPortal ==
    \/ \E env \in PortalEnvs : PortalStart(env)
    \/ \E n \in SecretNames, v \in SecretArgs : set_secret(n, v)
    \/ \E n \in SecretNames : clear_secret(n)
    \/ run_vault(<<"list">>)

SpecPortal == Init /\ [][NextPortal]_vars

----------------------------------------------------------------------------
(* The mission engine driven by one caller at a time *)

P1 == <<"a", ".", "b">>

FindingInputs ==
    {[title |-> <<"t">>, content |-> <<>>, tags |-> <<>>, confidence |-> 40],
     [title |-> <<>>, content |-> <<>>, tags |-> <<"unverified">>,
      confidence |-> 10]}

RunStatusArgs == {"open", "blocked", "cancelled"}

AllUp == [prov \in SearchFns |-> "ok"]

AllDown == [prov \in SearchFns |-> "error"]

OperatorStatuses == {"done", "cancelled", "open", "blocked"}

Setup ==
    \/ \E in \in FindingInputs : AddInsight(P1, in, None, TRUE)
    \/ \E max \in {1, 2} :
          AllIdle /\ plan_verification_missions(P1, None, 70, max)
    \/ \E m \in missions, st \in OperatorStatuses :
          AllIdle /\ set_verification_mission_status(m.id, st)
    \/ \E st \in {AllUp, AllDown} : AllIdle /\ ProviderChange(st)

Next ==
    \/ Setup
    \/ \E st \in RunStatusArgs, lim \in {1, 2} :
          AllIdle /\ RunBegin(1, P1, None, st, lim)
    \/ RunMark(1)
    \/ \E evOK \in BOOLEAN : RunSearch(1, evOK)
    \/ RunEnd(1)

Spec == Init /\ [][Next]_vars

(* The mission engine with two runners executing concurrently *)

NextConc ==
    \/ Setup
    \/ \E r \in Runners, lim \in {1, 2} : RunBegin(r, P1, None, "open", lim)
    \/ \E r \in Runners : RunMark(r)
    \/ \E r \in Runners, evOK \in BOOLEAN : RunSearch(r, evOK)
    \/ \E r \in Runners : RunEnd(r)

SpecConc == Init /\ [][NextConc]_vars

\* Planning over findings of two projects and two branches, with
\* confidences below, at and above the threshold.
PlanInputs ==
    {[title |-> <<"t">>, content |-> <<>>, tags |-> <<>>, confidence |-> 55],
     [title |-> <<>>, content |-> <<>>, tags |-> <<"unverified">>,
      confidence |-> 10],
     [title |-> <<"u">>, content |-> <<>>, tags |-> <<>>, confidence |-> 70],
     [title |-> <<"v">>, content |-> <<>>, tags |-> <<"unverified">>,
      confidence |-> 90]}

PlanThreshold == 70

NextPlan ==
    \/ CreateBranch(P1, BranchX, None, <<>>)
    \/ \E in \in PlanInputs, b \in {None, BranchX} : AddInsight(P1, in, b, TRUE)
    \/ \E in \in {i \in PlanInputs : i.confidence = 55} :
          AddInsight(<<"a", "_", "b">>, in, None, TRUE)
    \/ \E b \in {None, BranchX}, max \in {0, 1, 2} :
          plan_verification_missions(P1, b, PlanThreshold, max)
    \/ plan_verification_missions(<<"a", "_", "b">>, None, PlanThreshold, 1)

SpecPlan == Init /\ [][NextPlan]_vars

\* Runs over missions of two projects and two branches in several statuses.
RunInputs == {i \in PlanInputs : i.confidence \in {10, 55}}

NextRun ==
    \/ CreateBranch(P1, BranchX, None, <<>>)
    \/ \E in \in RunInputs, b \in {None, BranchX} : AddInsight(P1, in, b, TRUE)
    \/ \E in \in {i \in RunInputs : i.confidence = 55} :
          AddInsight(<<"a", "_", "b">>, in, None, TRUE)
    \/ \E b \in {None, BranchX} :
          AllIdle /\ plan_verification_missions(P1, b, PlanThreshold, 2)
    \/ AllIdle /\ plan_verification_missions(<<"a", "_", "b">>, None, PlanThreshold, 1)
    \/ \E m \in missions :
          AllIdle /\ set_verification_mission_status(m.id, "blocked")
    \/ \E st \in {"open", "blocked"}, lim \in {0, 1, 2} :
          AllIdle /\ RunBegin(1, P1, None, st, lim)
    \/ RunMark(1)
    \/ RunSearch(1, TRUE)
    \/ RunEnd(1)

SpecRun == Init /\ [][NextRun]_vars

(* Every operation of the core that runs beside stored findings *)

NextAppend ==
    \/ start_project(P1)
    \/ CreateBranch(P1, BranchX, None, <<>>)
    \/ \E in \in FindingInputs, ok \in BOOLEAN : AddInsight(P1, in, None, ok)
    \/ LogEvent(P1, "NOTE", "s", PyDict(<<>>), <<"vault">>, None)
    \/ get_ingest_service
    \/ Ingest(P1, SrcMolt, <<"x">>, None, "")
    \/ update_status(P1)
    \/ AllIdle /\ plan_verification_missions(P1, None, 70, 2)
    \/ AllIdle /\ RunBegin(1, P1, None, "open", 1)
    \/ RunMark(1)
    \/ \E evOK \in BOOLEAN : RunSearch(1, evOK)
    \/ RunEnd(1)

SpecAppend == Init /\ [][NextAppend]_vars

(* Repeated runs with limit L over missions that fail and missions that can succeed *)

RunLimit == 1

\* run_verification_missions(P1, status="open", limit=RunLimit), called
\* whenever no run is in progress.
RepeatedRun == AllIdle /\ RunBegin(1, P1, None, "open", RunLimit)

Recorded(in) == \E f \in findings : f.title = in.title

\* One finding per input is recorded, the findings are planned once they are
\* all there, and the open missions are run again and again; the providers
\* answer throughout.
NextStarve ==
    \/ start_project(P1)
    \/ CreateBranch(P1, BranchX, None, <<>>)
    \/ \E in \in RunInputs : ~Recorded(in) /\ AddInsight(P1, in, None, TRUE)
    \/ /\ AllIdle
       /\ \A in \in RunInputs : Recorded(in)
       /\ plan_verification_missions(P1, None, PlanThreshold, 2)
    \/ RepeatedRun
    \/ RunMark(1)
    \/ RunSearch(1, TRUE)
    \/ RunEnd(1)

SpecStarve ==
    /\ Init
    /\ [][NextStarve]_vars
    /\ WF_vars(RepeatedRun)
    /\ WF_vars(RunMark(1))
    /\ WF_vars(RunSearch(1, TRUE))
    /\ WF_vars(RunEnd(1))

(* Missions planned by the vault and dispatched by hand from the portal *)

DispatchQueries == {None, <<"q">>}

NextDispatch ==
    \/ start_project(P1)
    \/ CreateBranch(P1, BranchX, None, <<>>)
    \/ \E in \in {i \in FindingInputs : i.title = <<"t">>},
          b \in {None, BranchX} :
           AddInsight(P1, in, b, TRUE)
    \/ \E b \in {None, BranchX} :
           AllIdle /\ plan_verification_missions(P1, b, 70, 2)
    \/ \E p \in ProjectIds, n \in 1..MaxFindings, q \in DispatchQueries :
           create_mission(p, FindingId(n), q)

SpecDispatch == Init /\ [][NextDispatch]_vars

----------------------------------------------------------------------------
(* Branch resolver and entity store under arbitrary call sequences *)

NextBranch ==
    \/ \E p \in ProjectIds : start_project(p)
    \/ \E p \in ProjectIds, n \in BranchArgs, par \in ParentArgs,
          h \in Hypotheses : CreateBranch(p, n, par, h)
    \/ \E p \in ProjectIds, b \in BranchArgs : ResolveBranchId(p, b)

SpecBranch == Init /\ [][NextBranch]_vars

(* Ingestion under arbitrary call sequences *)

NextIngest ==
    \/ CreateBranch(<<"a", ".", "b">>, BranchX, None, <<>>)
    \/ get_ingest_service
    \/ \E p \in ProjectIds, s \in Sources, x \in ExtraTags,
          b \in {None, BranchX}, fail \in FailureModes : Ingest(p, s, x, b, fail)

SpecIngest == Init /\ [][NextIngest]_vars

(* Ingestion with the caller's extra tags varied *)

TagArgs == {None, <<>>, <<"x">>, <<"web", "x">>, <<"x", "y", "x">>}

NextTags ==
    \/ get_ingest_service
    \/ \E s \in {SrcCred1, SrcMolt}, x \in TagArgs,
          fail \in {"", "append_event"} :
          Ingest(<<"a", ".", "b">>, s, x, None, fail)

SpecTags == Init /\ [][NextTags]_vars

(* Branch-scoped writes of two projects under arbitrary call sequences *)

OwnerFinding ==
    [title |-> <<"t">>, content |-> <<>>, tags |-> <<>>, confidence |-> 40]

OwnerBranches == {None, BranchX}

\* The project whose rows are written; its id sanitises to the same text as
\* the id of the other project.
P2 == <<"a", "_", "b">>

ArtifactPaths == {<<"~/.researchvault/", "f">>, <<"/srv/", "f">>}

NextOwner ==
    \/ \E p \in ProjectIds : start_project(p)
    \/ CreateBranch(<<"a", ".", "b">>, BranchX, None, <<>>)
    \/ \E p \in ProjectIds, b \in OwnerBranches : ResolveBranchId(p, b)
    \/ \E b \in OwnerBranches : AddInsight(P2, OwnerFinding, b, TRUE)
    \/ \E b \in OwnerBranches : AddHypothesis(P2, b, <<"s">>)
    \/ \E b \in OwnerBranches, path \in ArtifactPaths :
          AddArtifact(P2, path, b)
    \/ \E b \in OwnerBranches :
          LogEvent(P2, "NOTE", "s", PyDict(<<>>), <<"vault">>, b)
    \/ \E b \in OwnerBranches : plan_verification_missions(P2, b, 70, 1)

SpecOwner == Init /\ [][NextOwner]_vars

(* The event log under arbitrary payloads and sources *)

K_token == <<"T", "o", "k", "e", "n">>

K_secret == <<"s", "e", "c", "r", "e", "t">>

K_url == <<"u", "r", "l">>

K_n == <<"n">>

SrcFtp == <<"ftp://", "u", ":", "p", "@", "h">>

\* Payloads a caller hands to log_event.
Payloads ==
    <<PyDict(<<<<K_token, PyStr(<<"abc123">>)>>>>),
      PyDict(<<<<K_secret, PyStr(<<"private-key">>)>>,
               <<K_n, PyDict(<<<<K_url, PyStr(SrcCred1)>>>>)>>>>),
      PyList(<<PyDict(<<<<K_n, PyList(<<PyDict(<<<<K_secret,
                                                  PyStr(<<"s">>)>>>>)>>)>>>>)>>),
      PyDict(<<<<K_n, PyInt(1)>>>>),
      PyDict(<<<<K_url, PyStr(SrcFtp)>>>>),
      PyTuple(<<PyDict(<<<<K_secret, PyStr(<<"s">>)>>>>)>>)>>

EventSources == {<<"vault">>, SrcCred1, SrcFtp}

NextScrub ==
    \/ start_project(P1)
    \/ \E i \in 1..Len(Payloads), src \in EventSources :
          LogEvent(P1, "NOTE", "s", Payloads[i], src, None)
    \/ AddArtifact(P1, <<"~/.researchvault/", "f">>, None)

SpecScrub == Init /\ [][NextScrub]_vars

(* The search gateway under arbitrary call sequences *)

SearchQueries == {None, <<" ">>, <<" ", "T">>}

\* The instants at which calls are made: the hour boundary seen from an
\* entry written at 0 and from one written at 1.
Instants == {0, 1, 3599, 3600, 3601, 3602}

\* RESEARCHVAULT_SEARCH_PROVIDERS
EnvProviders == <<"searxng", "brave">>

ProviderArgs == {"auto", "brave", "searxng"}

ProvidersArgs == {<<>>, <<"brave", "searxng">>}

SearchEnvStates ==
    {[prov \in SearchFns |->
         IF prov = "brave" THEN b ELSE IF prov = "searxng" THEN x ELSE "ok"] :
       b \in {"ok", "missing_key"},
       x \in {"ok", "empty", "not_configured", "error"}}

NextSearch ==
    \/ \E q \in SearchQueries, p \in ProviderArgs, ps \in ProvidersArgs :
          Search(q, p, ps, 1, EnvProviders)
    \/ SearchSetResult(<<"t">>, [provider |-> "manual", results |-> <<>>],
                       "searxng")
    \/ \E t \in Instants : Tick(t)
    \/ \E st \in SearchEnvStates : ProviderChange(st)

SpecSearch == Init /\ [][NextSearch]_vars

(* The provider loop of search under every combination of provider states *)

FallbackOrders == {<<"bing", "brave", "serper", "searxng">>,
                   <<"searxng", "bing", "brave">>}

FallbackStates ==
    {[prov \in SearchFns |->
         IF prov = "brave" THEN b ELSE IF prov = "searxng" THEN x
         ELSE IF prov = "serper" THEN s ELSE "ok"] :
       b \in {"ok", "empty", "missing_key", "error"},
       x \in {"ok", "not_configured", "error"},
       s \in {"ok", "missing_key"}}

NextFallback ==
    \/ \E ps \in FallbackOrders : Search(<<"t">>, "auto", ps, 1, <<>>)
    \/ Search(<<"t">>, "auto", <<>>, 1, <<>>)
    \/ Tick(3600)
    \/ \E st \in FallbackStates : ProviderChange(st)

SpecFallback == Init /\ [][NextFallback]_vars

----------------------------------------------------------------------------
(* C9: creating a branch that already exists in the project (create_branch  *)
(* with an existing name, or resolve_branch_id again) returns the id of the *)
(* first creation and leaves the branches table unchanged.                  *)

BranchPreExists ==
    /\ ret.op \in {"create_branch", "resolve_branch_id"}
    /\ ret.existed

BranchIdempotent ==
    [][BranchPreExists' =>
          /\ branches' = branches
          /\ Cardinality(BranchRows(branches', ret'.project_id, ret'.name)) = 1
          /\ ~IsRaised(ret'.val) =>
                /\ ret'.val = _make_branch_id(ret'.project_id, ret'.name)
                /\ \A b \in BranchRows(branches', ret'.project_id, ret'.name) :
                      b.id = ret'.val]_vars

BranchIdempotentWitness ==
    /\ BranchPreExists
    /\ ret.op = "create_branch"
    /\ ~IsRaised(ret.val)
    /\ Truthy(ret.parent)
    /\ \E b \in BranchRows(branches, ret.project_id, ret.name) :
          /\ b.hypothesis # ret.hypothesis
          /\ b.parent_id = None

(* C10: every project that was created has exactly one branch row named     *)
(* main whose project_id is that project.                                   *)

OneMainPerProject ==
    \A p \in projects : Cardinality(BranchRows(branches, p, MAIN)) = 1

----------------------------------------------------------------------------
(* C6: ingesting a source that already has a finding in the project and     *)
(* branch returns a successful dedup hit with that finding's id, calls no   *)
(* connector and adds no finding and no event; one finding per source.      *)

IngestDedupHit ==
    /\ ret.op = "ingest"
    /\ ~ret.val.raised
    /\ ret.prior # {}

IngestAtomic ==
    (ret.op = "ingest" /\ ~ret.val.raised /\ ~ret.val.dedup) =>
        (ret.added_finding <=> ret.added_event)

(* C8: a failure of the connector's fetch, of the finding write or of the   *)
(* event append, and the absence of an accepting connector, come back as an *)
(* IngestResult with success = FALSE and an error text, never as an         *)
(* exception.                                                               *)

IngestFailureIsResult ==
    (ret.op = "ingest" /\ ret.cause # "") =>
        /\ ~ret.val.raised
        /\ ~ret.val.success
        /\ ret.val.error # None

IngestFailureIsResultWitness ==
    /\ ret.op = "ingest"
    /\ ret.cause = "append_event"
    /\ ret.added_finding

----------------------------------------------------------------------------
MissionById(tbl, mid) == CHOOSE m \in tbl : m.id = mid

\* A step of plan_verification_missions or of run_verification_missions.
EngineStep ==
    \/ run' # run
    \/ ret' # ret /\ ret'.op \in {"plan_verification_missions",
                                  "run_verification_missions"}

(* C1 as claimed: no step of the engine changes the status of a mission     *)
(* that is blocked or cancelled, whatever the arguments of the run.         *)

RetryAfterSearchFailure ==
    (ret.op = "run_verification_missions" /\ ~ret.raised) =>
        \A i \in 1..Len(ret.results) :
            ret.results[i].cause = "search" =>
                LET m == MissionById(missions, ret.results[i].id)
                IN  /\ m.status = "open"
                    /\ m.last_error = ret.results[i].error
                    /\ m.last_error # <<>>
                    /\ m \in SelectMissions(missions, ret.project_id,
                                            ret.branch_id, "open")

RetryAfterSearchFailureWitness ==
    /\ ret.op = "run_verification_missions"
    /\ ~ret.raised
    /\ \E i \in 1..Len(ret.results) :
          /\ ret.results[i].cause = "search"
          /\ ret.results[i].error = <<"wikipedia", "request failed">>

(* C3: at most one mission row per project, branch, finding and derived     *)
(* query; planning again for a finding that has a mission inserts and       *)
(* reports nothing for it, whatever the status of that mission.             *)

OneMissionPerFindingQuery ==
    /\ \A m, k \in missions :
          (/\ m.project_id = k.project_id
           /\ m.branch_id = k.branch_id
           /\ m.finding_id = k.finding_id
           /\ m.query = k.query) => m = k
    /\ (ret.op = "plan_verification_missions" /\ ~ret.raised) =>
          /\ \A i \in 1..Len(ret.inserted) : ret.inserted[i][2] \notin ret.prior
          /\ Cardinality(missions) = ret.count_before + Len(ret.inserted)

OneMissionPerFindingQueryWitness ==
    /\ ret.op = "plan_verification_missions"
    /\ ~ret.raised
    /\ ret.inserted = <<>>
    /\ \E m \in missions : m.finding_id \in ret.prior /\ m.status = "done"
    /\ \E m \in missions : m.finding_id \in ret.prior /\ m.status = "open"

(* C4: of two concurrent runs, at most one executes the search of a         *)
(* mission that has been marked in_progress.                                *)

RunnersExclusive ==
    \A r1, r2 \in Runners :
        (/\ r1 # r2
         /\ run[r1].pc = "search"
         /\ run[r2].pc = "search") =>
            run[r1].rows[run[r1].idx].id # run[r2].rows[run[r2].idx].id

(* C5: a run returns one result per selected mission, in selection order,   *)
(* and a mission after a failed one is executed with its own outcome.       *)

SearchFails(q) ==
    \/ Strip(q) = <<>>
    \/ /\ \A r \in search_cache : r.query_hash[3] # _normalize_query(q)
       /\ \A prov \in SearchFns : provider_state[prov] \notin {"ok", "empty"}

BatchCompletes ==
    (ret.op = "run_verification_missions" /\ ~ret.raised) =>
        /\ Len(ret.results) = Len(ret.rows)
        /\ \A i \in 1..Len(ret.results) :
              /\ ret.results[i].id = ret.rows[i].id
              /\ ret.results[i].cause = "search" <=> SearchFails(ret.rows[i].query)
              /\ ret.results[i].status = "done" <=> ret.results[i].cause = ""

BatchCompletesWitness ==
    /\ ret.op = "run_verification_missions"
    /\ ~ret.raised
    /\ Len(ret.results) = 2
    /\ ret.results[1].cause = "search"
    /\ ret.results[2].status = "done"

----------------------------------------------------------------------------
(* C13: create_branch with a parent name that is not a branch of the same    *)
(* project, whatever other projects hold, raises the parent-not-found error  *)
(* and leaves the branches table unchanged; every stored parent_id is the id *)
(* of a branch row of the same project.                                      *)

ParentMissing ==
    /\ ret.op = "create_branch"
    /\ Truthy(ret.parent)
    /\ IsRaised(ret.val)

ParentInSameProject ==
    [][/\ (/\ ret'.op = "create_branch"
           /\ Truthy(ret'.parent)
           /\ ~\E b \in branches : /\ b.project_id = ret'.project_id
                                    /\ b.name = ret'.parent) =>
              /\ ret'.val = Raised("ValueError: Parent branch not found")
              /\ branches' = branches
       /\ \A b \in branches' :
              b.parent_id # None =>
                  \E q \in branches' : /\ q.id = b.parent_id
                                       /\ q.project_id = b.project_id]_vars

ParentInSameProjectWitness ==
    /\ ParentMissing
    /\ \E b \in branches : /\ b.name = ret.parent
                           /\ b.project_id # ret.project_id
    /\ \E b \in branches : b.parent_id # None

----------------------------------------------------------------------------
\* A query that is missing, empty or made of whitespace only.
IsBlank(query) ==
    query = None \/ \A i \in 1..Len(query) : query[i] \in Whitespace

SearchCall == ret.op = "search" /\ ~IsBlank(ret.query)

\* The providers of the order, by position, whose entry was younger than the
\* TTL when the call started.
FreshAt == {i \in 1..Len(ret.order) :
               ret.ages[i] >= 0 /\ ret.ages[i] < ret.ttl_hours * 3600}

StoredResult(prov) ==
    (CHOOSE r \in search_cache :
        r.query_hash = <<"sha256", prov, _normalize_query(ret.query)>>).result[2]

(* C14: when some provider of the order holds an entry for the query younger *)
(* than the TTL, search returns the entry of the first such provider with    *)
(* origin cache and calls no provider, also when an earlier provider has no  *)
(* entry or an expired one.                                                  *)

BlankQueryRejected ==
    [][(ret'.op = "search" /\ IsBlank(ret'.query)) =>
          /\ ~ret'.ok
          /\ ret'.type = "ValueError"
          /\ ret'.error = <<"empty query">>
          /\ ret'.called = <<>>
          /\ search_cache' = search_cache]_vars

BlankQueryRejectedWitness ==
    /\ ret.op = "search"
    /\ ret.query = <<" ">>
    /\ ~ret.ok
    /\ search_cache # {}

\* The call repeats the query of the call just before, which provider
\* ret.prev.provider answered from the network, with an order holding it.
RepeatAfterNetwork ==
    /\ SearchCall
    /\ ret.prev.provider # ""
    /\ \E i \in 1..Len(ret.order) : ret.order[i] = ret.prev.provider

(* C16 as claimed: the repeat returns the result of the network call, from   *)
(* the cache and without a provider call.                                    *)

RepeatServesSameResult ==
    RepeatAfterNetwork =>
        /\ ret.source = "cache"
        /\ ret.called = <<>>
        /\ ret.res = ret.prev.res

(* C16: a result returned from the network, empty or not, is in the cache    *)
(* when search returns; the repeat is answered from the cache without a      *)
(* provider call, with that result unless a provider earlier in the order    *)
(* holds a fresh entry of its own, which is then the one returned.           *)

NetworkResultCached ==
    /\ (SearchCall /\ ret.source = "network") =>
          \E r \in search_cache :
              /\ r.query_hash =
                     <<"sha256", ret.used, _normalize_query(ret.query)>>
              /\ r.result = <<"json", ret.res>>
              /\ r.timestamp = clock
    /\ RepeatAfterNetwork =>
          /\ ret.source = "cache"
          /\ ret.called = <<>>
          /\ ret.used = ret.prev.provider => ret.res = ret.prev.res
          /\ ret.used # ret.prev.provider =>
                \E i, j \in 1..Len(ret.order) :
                    /\ i < j
                    /\ ret.order[i] = ret.used
                    /\ ret.order[j] = ret.prev.provider
                    /\ i \in FreshAt

NetworkResultCachedWitness ==
    /\ RepeatAfterNetwork
    /\ ret.used = ret.prev.provider
    /\ ret.res.results = <<>>
    /\ Len(ret.order) = 2

(* C17: a search for one named provider that finds no cache entry and whose  *)
(* provider call fails raises that provider's failure with its own type.     *)

NamedProviderFailureTyped ==
    (/\ SearchCall
     /\ ret.provider # "auto"
     /\ ret.order = <<ret.provider>>
     /\ ~ret.ok) =>
        /\ provider_state[ret.provider] = "missing_key" =>
              ret.type = "MissingAPIKeyError"
        /\ provider_state[ret.provider] = "not_configured" =>
              ret.type = "ProviderNotConfiguredError"

(* C18: an auto search in which every provider fails raises a generic        *)
(* failure whose message is the error of the last provider attempted.        *)

AutoFailureCarriesLastError ==
    (SearchCall /\ ret.provider = "auto" /\ ~ret.ok) =>
        /\ ret.type = "RuntimeError"
        /\ ret.called # <<>> =>
              ret.error \in
                  {<<ret.called[Len(ret.called)], m>> :
                      m \in {"API key not found", "base URL not configured",
                             "request failed"}}

----------------------------------------------------------------------------
(* C11: every finding, hypothesis, artifact, event and mission carries the   *)
(* id of an existing branch row, and that row belongs to the entity's own    *)
(* project when the entity carries a project_id.                             *)

OwnedBy(e, hasProject) ==
    \E b \in branches :
        /\ b.id = e.branch_id
        /\ hasProject => b.project_id = e.project_id

BranchOwnership ==
    /\ \A f \in findings : OwnedBy(f, TRUE)
    /\ \A a \in artifacts : OwnedBy(a, TRUE)
    /\ \A m \in missions : OwnedBy(m, TRUE)
    /\ \A i \in 1..Len(events) : OwnedBy(events[i], TRUE)
    /\ \A h \in hypotheses : OwnedBy(h, FALSE)

(* C12: a branch-scoped call naming a branch other than main that the        *)
(* project does not have raises branch-not-found (add_artifact may raise its *)
(* path error first) and writes no row; a branch row that appears outside    *)
(* create_branch and start_project is named main.                            *)

BranchScopedOps ==
    {"resolve_branch_id", "add_insight", "add_hypothesis", "add_artifact",
     "log_event", "plan_verification_missions"}

MissingBranchFails ==
    [][/\ (/\ ret'.op \in BranchScopedOps
           /\ ret'.name # MAIN
           /\ ~\E b \in branches : /\ b.project_id = ret'.project_id
                                   /\ b.name = ret'.name) =>
              /\ IsRaised(ret'.val)
              /\ ret'.op # "add_artifact" =>
                    ret'.val = Raised("ValueError: Branch not found")
              /\ branches' = branches
              /\ findings' = findings
              /\ hypotheses' = hypotheses
              /\ artifacts' = artifacts
              /\ events' = events
              /\ missions' = missions
       /\ ret'.op \in BranchScopedOps =>
              \A b \in branches' \ branches : b.name = MAIN]_vars

MissingBranchFailsWitness ==
    /\ ret.op = "add_hypothesis"
    /\ ret.val = Raised("ValueError: Branch not found")
    /\ findings # {}
    /\ \E b \in branches : b.name = ret.name /\ b.project_id # ret.project_id

----------------------------------------------------------------------------
\* The string holds scheme://user:password@ with a password that is not the
\* redaction mark.
HasUrlCredential(str) ==
    \E i, j, k \in 1..Len(str) :
        /\ str[i] \in {"http://", "https://", "ftp://"}
        /\ i + 1 < j /\ j + 1 < k
        /\ str[j] = ":" /\ str[k] = "@"
        /\ \A x \in (i + 1)..(k - 1) : str[x] # "/"
        /\ SubSeq(str, j + 1, k - 1) # <<"REDACTED">>

\* The JSON value holds a string directly under a sensitive key, or a URL
\* credential in any string, at any depth.
RECURSIVE Exposes(_)
Exposes(value) ==
    CASE value.t = "str" -> HasUrlCredential(value.v)
      [] value.t = "dict" ->
            \E i \in 1..Len(value.v) :
                \/ /\ IsSensitiveKey(value.v[i][1])
                   /\ value.v[i][2].t = "str"
                   /\ value.v[i][2].v # REDACTED
                \/ Exposes(value.v[i][2])
      [] value.t = "list" -> \E i \in 1..Len(value.v) : Exposes(value.v[i])
      [] OTHER -> FALSE

(* C20: no stored event holds, in its payload or its source, a string under  *)
(* a sensitive key or a credential embedded in a URL.                        *)

EventsScrubbed ==
    \A i \in 1..Len(events) :
        /\ ~Exposes(json_loads(events[i].payload))
        /\ ~HasUrlCredential(events[i].source)

----------------------------------------------------------------------------
(* Writers meeting a held write lock                                       *)
(*                                                                         *)
(* A call meets `busy` lock-busy conditions in a row: each of its first    *)
(* `busy` attempts to write ends in sqlite3.OperationalError "database is  *)
(* locked", and the attempt after them finds the lock released.            *)

\* db.retry_on_lock: the attempts one decorated call makes.
RetryAttempts == 3

MaxBusy == 3

\* The functions of scripts/core.py that carry @db.retry_on_lock().
Decorated == {"start_project", "log_event", "add_insight", "add_artifact"}

\* db.retry_on_lock around a call: the call is made again while it raises
\* the lock error and attempts remain, and the last error is raised.
\* An undecorated function is called once.
retry_on_lock(path, busy) ==
    LET limit == IF path \in Decorated THEN RetryAttempts ELSE 1
        attempts == IF busy + 1 < limit THEN busy + 1 ELSE limit
    IN  [attempts |-> attempts, ok |-> busy < attempts]

Locked == Raised("OperationalError: database is locked")

ContendedRet(path, project_id, busy, val) ==
    [op |-> "contended_write", path |-> path, project_id |-> project_id,
     busy |-> busy, attempts |-> retry_on_lock(path, busy).attempts,
     val |-> val]

ContendedStartProject(project_id, busy) ==
    LET t == retry_on_lock("start_project", busy)
        e == ensure_branch(branches, project_id, MAIN, None, <<>>)
    IN  /\ AllIdle
        /\ projects' = IF t.ok THEN projects \cup {project_id} ELSE projects
        /\ branches' = IF t.ok THEN e.tbl ELSE branches
        /\ ret' = ContendedRet("start_project", project_id, busy,
                               IF t.ok THEN e.val ELSE Locked)
        /\ UNCHANGED <<portal, store, initf, tail, sessions, hypotheses, artifacts,
                       clock, findings, events, missions, search_cache,
                       provider_state, connectors, nextFid, nextMid, run>>

ContendedCreateBranch(project_id, name, busy) ==
    LET t == retry_on_lock("create_branch", busy)
        e == create_branch(branches, project_id, name, None, <<>>)
    IN  /\ AllIdle
        /\ branches' = IF t.ok THEN e.tbl ELSE branches
        /\ ret' = ContendedRet("create_branch", project_id, busy,
                               IF t.ok THEN e.val ELSE Locked)
        /\ UNCHANGED <<portal, store, initf, tail, sessions, hypotheses, artifacts,
                       clock, projects, findings, events, missions,
                       search_cache, provider_state, connectors, nextFid,
                       nextMid, run>>

ContendedAddInsight(project_id, busy) ==
    LET t == retry_on_lock("add_insight", busy)
        a == add_insight(branches, findings, nextFid, project_id, <<"t">>,
                         <<>>, <<>>, <<>>, 50, None, t.ok)
    IN  /\ AllIdle
        /\ nextFid < MaxFindings
        /\ branches' = a.branches
        /\ findings' = a.findings
        /\ nextFid' = a.n
        /\ ret' = ContendedRet("add_insight", project_id, busy, a.val)
        /\ UNCHANGED <<portal, store, initf, tail, sessions, hypotheses, artifacts,
                       clock, projects, events, missions, search_cache,
                       provider_state, connectors, run, nextMid>>

ContendedAddArtifact(project_id, busy) ==
    LET t == retry_on_lock("add_artifact", busy)
        a == add_artifact(branches, artifacts, events, project_id,
                          <<"~/.researchvault/", "f">>, None)
    IN  /\ AllIdle
        /\ Cardinality(artifacts) < MaxArtifacts
        /\ Len(a.events) <= MaxEvents
        /\ branches' = IF t.ok THEN a.branches ELSE branches
        /\ artifacts' = IF t.ok THEN a.artifacts ELSE artifacts
        /\ events' = IF t.ok THEN a.events ELSE events
        /\ ret' = ContendedRet("add_artifact", project_id, busy,
                               IF t.ok THEN a.val ELSE Locked)
        /\ UNCHANGED <<portal, store, initf, tail, sessions, hypotheses, clock,
                       projects, findings, missions, search_cache,
                       provider_state, connectors, nextFid, nextMid, run>>

ContendedLogEvent(project_id, busy) ==
    LET t == retry_on_lock("log_event", busy)
        e == log_event(branches, events, project_id, "NOTE", "s",
                       PyDict(<<>>), <<"vault">>, None, t.ok)
    IN  /\ AllIdle
        /\ Len(e.events) <= MaxEvents
        /\ branches' = e.branches
        /\ events' = e.events
        /\ ret' = ContendedRet("log_event", project_id, busy, e.val)
        /\ UNCHANGED <<portal, store, initf, tail, sessions, hypotheses, artifacts,
                       clock, projects, findings, missions, search_cache,
                       provider_state, connectors, nextFid, nextMid, run>>

ContendedLogSearch(query, busy) ==
    LET t == retry_on_lock("log_search", busy)
    IN  /\ AllIdle
        /\ search_cache' =
              IF t.ok
              THEN log_search(search_cache, query,
                              [provider |-> "manual", results |-> <<>>],
                              "searxng", clock)
              ELSE search_cache
        /\ ret' = ContendedRet("log_search", None, busy,
                               IF t.ok THEN None ELSE Locked)
        /\ UNCHANGED <<portal, store, initf, tail, sessions, hypotheses, artifacts,
                       clock, projects, branches, findings, events, missions,
                       provider_state, connectors, nextFid, nextMid, run>>

BusyRuns == 0..MaxBusy

NextLock ==
    \/ \E p \in ProjectIds, k \in BusyRuns : ContendedStartProject(p, k)
    \/ \E p \in ProjectIds, k \in BusyRuns :
          ContendedCreateBranch(p, BranchX, k)
    \/ \E k \in BusyRuns : ContendedAddInsight(<<"a", ".", "b">>, k)
    \/ \E k \in BusyRuns : ContendedAddArtifact(<<"a", ".", "b">>, k)
    \/ \E k \in BusyRuns : ContendedLogEvent(<<"a", ".", "b">>, k)
    \/ \E k \in BusyRuns : ContendedLogSearch(<<"t">>, k)

SpecLock == Init /\ [][NextLock]_vars

----------------------------------------------------------------------------
Migrated == store.schema_version = {LatestVersion}

(* C21: init_db called any number of times, one call after the other, never  *)
(* fails; a finished call leaves one schema_version row at the latest        *)
(* version; and once the file is at the latest version no step of any call   *)
(* changes it or enters a migration.                                         *)

InitDbIdempotent ==
    /\ [](\A p \in Processes :
             /\ initf[p].pc # "failed"
             /\ initf[p].pc = "done" => Migrated)
    /\ [][Migrated =>
             /\ store' = store
             /\ \A p \in Processes : initf'[p].pc \notin {"migrate", "bump"}]_vars

InitDbIdempotentWitness ==
    /\ initf[1].pc = "done" /\ initf[1].out = <<2, 3>>
    /\ initf[2].pc = "done" /\ initf[2].out = <<>>
    /\ store.findings = <<"t", "u">>

\* Migration i has left something in the committed file.
EffectsPersisted(i) ==
    CASE i = 1 -> Range(V1Tables) \cap store.tables # {}
      [] i = 2 -> Range(V2Tables) \cap store.tables # {}
      [] OTHER -> store.findings # <<>>

(* C22: whenever no call is in progress, the committed file holds effects of *)
(* migration i only if the stored version is at least i: a migration that    *)
(* raised part-way has left nothing behind.                                  *)

StepsAtomic ==
    NoCallInProgress =>
        \A i \in 1..LatestVersion : EffectsPersisted(i) => FetchVersion(store) >= i

(* C23: of two concurrent init_db calls none fails, and when both are done   *)
(* the file has one schema_version row at the latest version and one         *)
(* backfilled finding per insight.                                           *)

ConcurrentInitSafe ==
    /\ \A p \in Processes : initf[p].pc # "failed"
    /\ Len(store.findings) <= Len(store.insights)
    /\ (\A p \in Processes : initf[p].pc = "done") =>
           Migrated /\ store.findings = store.insights

----------------------------------------------------------------------------
\* Event id k is one the stream has to deliver.
Wanted(k) ==
    /\ tail.pc # "idle"
    /\ k <= Len(events)
    /\ k > tail.last_id
    /\ MatchesFilter(tail.project_id, events[k])

RECURSIVE WantedUpTo(_)
\* The ids to deliver among 1..n, ascending.
WantedUpTo(n) ==
    IF n = 0 THEN <<>>
    ELSE IF Wanted(n) THEN Append(WantedUpTo(n - 1), n) ELSE WantedUpTo(n - 1)

(* C24: the event log only grows, an event's id is its position; what the    *)
(* stream has yielded is always exactly the matching events with id up to    *)
(* current_id, each once and in id order; and every matching event is        *)
(* eventually yielded.                                                       *)

TailDeliversOnceInOrder ==
    /\ [][/\ Len(events') >= Len(events)
          /\ SubSeq(events', 1, Len(events)) = events]_vars
    /\ [](tail.pc # "idle" => tail.yielded = WantedUpTo(tail.current_id))
    /\ \A k \in 1..MaxStreamEvents :
           Wanted(k) ~> (\E i \in 1..Len(tail.yielded) : tail.yielded[i] = k)

TailDeliversOnceInOrderWitness ==
    /\ tail.pc = "poll"
    /\ tail.project_id = <<"a", ".", "b">>
    /\ tail.yielded = <<1, 3>>
    /\ Len(events) = 3
    /\ ret.op = "event_generator" /\ ret.event = "pulse"

----------------------------------------------------------------------------
\* The step is a plan_verification_missions call that got past the branch.
PlanCall == ret'.op = "plan_verification_missions" /\ ~ret'.raised

\* Findings the call has to consider: of its project and branch, below the
\* threshold or tagged unverified.
Eligible ==
    {f \in findings : /\ f.project_id = ret'.project_id
                      /\ f.branch_id = ret'.branch_id
                      /\ (f.confidence < ret'.threshold
                          \/ Contains(f.tags, "unverified"))}

Unplanned == {f \in Eligible : \A m \in missions : m.finding_id # f.id}

\* Finding f comes before g: lower confidence, or the same and newer.
ComesFirst(f, g) ==
    \/ f.confidence < g.confidence
    \/ f.confidence = g.confidence /\ f.created_at > g.created_at

Smaller(a, b) == IF a < b THEN a ELSE b

(* C25: one plan call adds missions only for eligible findings of its        *)
(* project and branch that had none, one each, at most max_missions of them  *)
(* and as many as that allows, taking the findings in ascending confidence   *)
(* and then newest first; it touches no existing mission.                    *)

PriorityRounded ==
    \A m \in missions : \A f \in findings :
        f.id = m.finding_id => m.priority = 100 - f.confidence

----------------------------------------------------------------------------
\* Mission m is to run before k: higher priority, or the same and older.
RunsFirst(m, k) ==
    \/ m.priority > k.priority
    \/ m.priority = k.priority /\ m.created_at < k.created_at

MissionOf(id) == CHOOSE m \in missions : m.id = id

(* C26: a run selects, of the n missions of its project and branch in the    *)
(* requested status, the first min(limit, n) by priority descending and      *)
(* creation ascending; each of its steps changes only the selected mission   *)
(* it is working on; and it returns one result per selected mission.         *)

----------------------------------------------------------------------------
(* C29: the project_id of every branch, finding, artifact, mission and event *)
(* row is the id of a row of the projects table.                             *)

ProjectsExist ==
    /\ \A b \in branches : b.project_id \in projects
    /\ \A f \in findings : f.project_id \in projects
    /\ \A a \in artifacts : a.project_id \in projects
    /\ \A m \in missions : m.project_id \in projects
    /\ \A i \in 1..Len(events) : events[i].project_id \in projects

----------------------------------------------------------------------------
\* The stored session with this id.
Stored(sid) == {s \in sessions.dict : s.sid = sid}

(* C30: require_session accepts a stored session whose age is at most the    *)
(* TTL and nothing else; a stored session older than the TTL is answered     *)
(* with Session expired and removed; a session id that has left the store    *)
(* never returns to it, so it is never accepted again; and create_session    *)
(* stores a session only for a non-empty token equal to the configured one.  *)

SessionLifetime ==
    [][/\ ret'.op = "require_session" =>
            /\ (\E s \in Stored(ret'.sid) : clock - s.created_at <= SESSION_TTL_S)
                   <=> ret'.val = None
            /\ (\E s \in Stored(ret'.sid) : clock - s.created_at > SESSION_TTL_S)
                   <=> ret'.val = Raised(<<401, "Session expired">>)
            /\ ret'.val # None =>
                   \A s \in sessions'.dict : s.sid # ret'.sid
       /\ \A n \in 1..sessions.issued :
            Stored(SessionId(n)) = {} =>
                \A s \in sessions'.dict : s.sid # SessionId(n)
       /\ ret'.op = "create_session" =>
            \/ /\ ret'.token = ret'.env /\ ret'.token \notin {None, <<>>}
               /\ sessions'.dict = sessions.dict \cup
                      {[sid |-> ret'.val, created_at |-> clock]}
               /\ Stored(ret'.val) = {}
            \/ /\ (ret'.token # ret'.env \/ ret'.token \in {None, <<>>})
               /\ IsRaised(ret'.val)
               /\ sessions' = sessions
       /\ clock' >= clock]_vars

SessionLifetimeWitness ==
    /\ ret.op = "require_session"
    /\ ret.val = None
    /\ \E s \in Stored(ret.sid) : clock - s.created_at = SESSION_TTL_S
    /\ sessions.issued = 2
    /\ Cardinality(sessions.dict) = 1

(* C28: every write of the core that meets lock-busy conditions is retried   *)
(* a bounded number of times: when the lock clears within the bound the      *)
(* write is applied and nothing is raised, otherwise the lock error is       *)
(* raised after the last attempt; none gives up at the first occurrence.     *)

LockBusyRetried ==
    ret.op = "contended_write" =>
        /\ ret.attempts <= RetryAttempts
        /\ ret.busy < RetryAttempts => ~IsRaised(ret.val)
        /\ ret.busy >= RetryAttempts =>
               /\ ret.val = Locked
               /\ ret.attempts = RetryAttempts

\* The call that has just returned set the secret `name`.
SecretSet(r, name) == r.op = "set_secret" /\ r.name = name /\ ~r.raised

PersistOptIn == portal.env[PERSIST_SECRETS] = <<"1">>

(* C31: unless RESEARCHVAULT_PORTAL_PERSIST_SECRETS is "1" no set or clear   *)
(* creates or writes secrets.json, and a secret that was set is reported as   *)
(* configured with source "portal" and returned by its getter, until it is    *)
(* set again or cleared, when the environment does not define it; with the    *)
(* opt-in the file holds exactly the secrets currently set.                   *)

SecretsPersistOnlyOnOptIn ==
    /\ [](~PersistOptIn => ~portal.file.exists)
    /\ [](PersistOptIn =>
            /\ portal.file.exists = (portal.runtime # NoSecrets)
            /\ _read_secrets(portal.file) = portal.runtime)
    /\ [](\A n \in SecretNames :
            SecretSet(ret, n) /\ ~Truthy(portal.env[EnvVar(n)]) =>
                /\ ret.val[n] = [configured |-> TRUE, source |-> "portal"]
                /\ get_secret(portal, n) = ret.key)
    /\ [][\A n \in SecretNames :
            /\ Truthy(get_secret(portal, n))
            /\ ~Truthy(portal.env[EnvVar(n)])
            /\ ~(ret'.op \in {"set_secret", "clear_secret"} /\ ret'.name = n)
            => /\ get_secret(portal', n) = get_secret(portal, n)
               /\ secrets_status(portal')[n].source = "portal"]_vars

SecretsPersistOnlyOnOptInWitness ==
    /\ ~PersistOptIn
    /\ SecretSet(ret, "serper_api_key")
    /\ portal.env["BRAVE_API_KEY"] = None
    /\ portal.runtime["brave_api_key"] = <<"k">>
    /\ portal.runtime["serper_api_key"] = <<"j">>

(* C32: run_vault puts a portal-stored secret into the environment of the    *)
(* vault subprocess only when RESEARCHVAULT_PORTAL_INJECT_SECRETS is "1":     *)
(* without the opt-in each secret variable of the subprocess is what the      *)
(* portal's own environment holds, with it an undefined variable takes the    *)
(* portal-stored value.                                                       *)

InjectionRequiresOptIn ==
    ret.op = "run_vault" =>
        \A n \in SecretNames :
            IF /\ portal.env[INJECT_SECRETS] = <<"1">>
               /\ ~Truthy(portal.env[EnvVar(n)])
               /\ Truthy(portal.runtime[n])
            THEN ret.env[EnvVar(n)] = portal.runtime[n]
            ELSE ret.env[EnvVar(n)] = portal.env[EnvVar(n)]

\* The providers of the order that have a search function, in order.
RECURSIVE KnownOf(_)
KnownOf(order) ==
    IF order = <<>> THEN <<>>
    ELSE IF Head(order) \in SearchFns
    THEN <<Head(order)>> \o KnownOf(Tail(order))
    ELSE KnownOf(Tail(order))

Answers(prov) == provider_state[prov] \in {"ok", "empty"}

(* C33: when no provider of the order has a fresh cache entry, search calls  *)
(* the providers one at a time in the configured order, skipping unknown      *)
(* names; the first provider whose call succeeds gives the result, origin     *)
(* network and the provider name, and no provider is called after it; a       *)
(* provider that fails (missing key, missing configuration, other error)      *)
(* leaves the next one to be tried.                                           *)

BackfillIdempotent ==
    /\ Migrated => store.findings = store.insights
    /\ ret.op = "_migration_v3" => Len(store.findings) <= Len(store.insights)

(* C35: list_branches and list_hypotheses return their rows in creation      *)
(* order, oldest first, for every project and every branch filter.           *)

ListingsOldestFirst ==
    (ret.op \in {"list_branches", "list_hypotheses"} /\ ~ret.raised) =>
        \A i, j \in 1..Len(ret.val) :
            i < j => ret.val[i].created_at < ret.val[j].created_at

Elements(seq) == {seq[i] : i \in 1..Len(seq)}

(* C36: the tags a non-dedup ingest stores are the draft's tags in their     *)
(* order followed by the extra tags that are not among them, each tag once,  *)
(* for every extra_tags list, also one that repeats a tag.                   *)

TagsAreOrderedUnion ==
    (ret.op = "ingest" /\ ret.added_finding) =>
        LET f == CHOOSE g \in findings : g.id = FindingId(nextFid)
            draft == Draft(connectors[ret.called], ret.source).tags
            extra == IF Truthy(ret.extra_tags) THEN ret.extra_tags ELSE <<>>
        IN  /\ SubSeq(f.tags, 1, Len(draft)) = draft
            /\ Elements(f.tags) = Elements(draft) \cup Elements(extra)
            /\ \A i, j \in 1..Len(f.tags) : i # j => f.tags[i] # f.tags[j]

(* C37: findings are append-only: no operation of the core (ingest with or   *)
(* without a dedup hit, add_insight, log_event, branch operations,           *)
(* update_status, start_project on an existing project, planning, running)   *)
(* changes or removes a stored finding row.                                  *)

FindingsAppendOnly == [][findings \subseteq findings']_vars

FindingsAppendOnlyWitness ==
    /\ Cardinality(findings) = 2
    /\ missions # {}
    /\ ret.op = "ingest"
    /\ ret.val.dedup

(* C38: in every reachable state a mission has completed_at set and a        *)
(* non-empty result_meta exactly when its status is done; an open or         *)
(* in_progress mission carries neither, also after an execution whose        *)
(* search succeeded and whose event append failed.                           *)

CompletionMatchesStatus ==
    \A m \in missions :
        /\ m.status = "done" => m.completed_at # None /\ m.result_meta # <<>>
        /\ m.status # "done" => m.completed_at = None /\ m.result_meta = <<>>

MissionIn(n, status) ==
    \E m \in missions : m.id = MissionId(n) /\ m.status = status

\* Mission n is open and its own search would succeed: the providers answer
\* and its query is not blank.
Runnable(n) ==
    \E m \in missions : /\ m.id = MissionId(n)
                         /\ m.status = "open"
                         /\ ~IsBlank(m.query)

(* C39: under repeated run_verification_missions(status = open, limit = L)   *)
(* every open mission whose own search would succeed is eventually          *)
(* executed and reaches done, also when L or more open missions of higher    *)
(* or equal priority fail on every attempt.                                  *)

RunnableMissionCompletes ==
    \A n \in 1..(MaxFindings + 1) : Runnable(n) ~> MissionIn(n, "done")

\* C40: every mission row names a finding that exists and has the mission's
\* project and branch, whether the mission was planned by
\* plan_verification_missions or dispatched by create_mission.
MissionsTiedToFinding ==
    \A m \in missions :
        \E f \in findings : /\ f.id = m.finding_id
                            /\ f.project_id = m.project_id
                            /\ f.branch_id = m.branch_id

====
